---- MODULE Spec2Model ----
(***************************************************************************)
(* Model of the inference core of ImageAnalysisTool (PythonAnalysis):      *)
(* MappingAnalyzer, ModelFitter, AlgorithmDeriver and the statistics of    *)
(* DataManager.                                                            *)
(*                                                                         *)
(* Numbers.  The code computes in IEEE doubles; the model computes the     *)
(* same formulas in exact rational arithmetic (a rational is a record      *)
(* [num, den] in lowest terms, den = 0 standing for NaN), so a result of   *)
(* the model is the value the floating-point result approximates.          *)
(* Logarithms are taken only of powers of two, where a regression on       *)
(* ln(v) has the same R^2 as the regression on log2(v).                    *)
(***************************************************************************)
EXTENDS Integers, Sequences, FiniteSets, TLC

VARIABLES
    current_data,       \* DataManager.current_data: [none, rows]
    statistics_cache,   \* DataManager.statistics_cache
    stat_path,          \* which branch of _calculate_basic_statistics wrote the cache
    op,                 \* the analysis operation in progress or last returned
    pc,                 \* position inside that operation
    tests_run,          \* the hypothesis tests derive_algorithm has called, in order
    result,             \* the value the operation returned
    file,               \* the lines of the text file at the path handed to the parser
    data_lock,          \* DataManager._data_lock: "free" or the thread that holds it
    reader,             \* position of the thread inside get_data / get_statistics
    handed,             \* the object a caller was handed, with what it shares
    current_analysis,   \* AlgorithmEngine.current_analysis
    locals,             \* the local variables of a call that runs step by step
    emitted             \* the signals the engine's last call emitted, in order

\* The state of the analysis operations.
core == <<current_data, statistics_cache, stat_path, op, pc, tests_run, result>>

\* The file, the lock and its reader, the caller's object, the engine's result.
around == <<file, data_lock, reader, handed, current_analysis, locals, emitted>>

vars == <<current_data, statistics_cache, stat_path, op, pc, tests_run, result,
          file, data_lock, reader, handed, current_analysis, locals, emitted>>

\* ------------------------------------------------------------------ bounds

\* Longest Dataset of the short-input specifications.
MaxLen == 3

\* The chunk size of the statistics and the size of the fallback subsample,
\* scaled down from chunk_size = 500000 and 100000 records.
StatChunk == 2
SampleCap == 2

\* Longest Dataset of the piecewise specification.
PMaxLen == 9

\* The window of the turning-point scan, the edge guard and the smallest
\* Segment, scaled down together from window_size = 1000, the edge guard
\* 100 and the 10-record minimum so that a scan fits in a Dataset of
\* PMaxLen records.
WindowSize == 4
EdgeGuard == 1
MinSegment == 1

\* max_segments of find_piecewise_mapping.
max_segments == 5

\* ------------------------------------------------------- exact arithmetic

Abs(a) == IF a < 0 THEN -a ELSE a

RECURSIVE Gcd(_, _)
Gcd(a, b) == IF b = 0 THEN a ELSE Gcd(b, a % b)

NaN == [num |-> 0, den |-> 0]

IsNaN(p) == p.den = 0

\* a / b in lowest terms with a positive denominator; x / 0 is NaN.
Rat(a, b) ==
    IF b = 0 THEN NaN
    ELSE LET g == Gcd(Abs(a), Abs(b))
             s == IF b < 0 THEN -1 ELSE 1
         IN  [num |-> s * (a \div g), den |-> s * (b \div g)]

\* a/b < c/d for a, c >= 0 and b, d > 0, by continued fractions (no products,
\* so nothing overflows).
RECURSIVE FracLess(_, _, _, _)
FracLess(a, b, c, d) ==
    LET q1 == a \div b
        q2 == c \div d
        r1 == a % b
        r2 == c % d
    IN  IF q1 # q2 THEN q1 < q2
        ELSE IF r2 = 0 THEN FALSE
        ELSE IF r1 = 0 THEN TRUE
        ELSE FracLess(d, r2, b, r1)

\* p < q as IEEE compares: FALSE as soon as one side is NaN.
RatLess(p, q) ==
    IF IsNaN(p) \/ IsNaN(q) THEN FALSE
    ELSE IF p.num < 0 /\ q.num >= 0 THEN TRUE
    ELSE IF p.num >= 0 /\ q.num < 0 THEN FALSE
    ELSE IF p.num >= 0 THEN FracLess(p.num, p.den, q.num, q.den)
    ELSE FracLess(-q.num, q.den, -p.num, p.den)

RatInt(a) == [num |-> a, den |-> 1]

RECURSIVE SumSeq(_)
SumSeq(s) == IF s = <<>> THEN 0 ELSE Head(s) + SumSeq(Tail(s))

Dot(s, t) == SumSeq([i \in 1..Len(s) |-> s[i] * t[i]])

SetMin(S) == CHOOSE m \in S : \A v \in S : m <= v
SetMax(S) == CHOOSE m \in S : \A v \in S : v <= m

Range(s) == {s[i] : i \in 1..Len(s)}

\* ---------------------------------------------------------------- Dataset

\* One MappingRecord as the simple grammar yields it: change = target - original.
Rec(o, t) == [original_value |-> o, target_value |-> t, change |-> t - o]

Xs(d) == [i \in 1..Len(d) |-> d[i].original_value]
Ys(d) == [i \in 1..Len(d) |-> d[i].target_value]
Cs(d) == [i \in 1..Len(d) |-> d[i].change]

\* The Dataset without records is the DataFrame without columns that
\* parse_to_dataframe returns for it: every data[column] raises KeyError.
\* All Datasets of at most n records over the record pool P.
Datasets(P, n) == UNION {[1..k -> P] : k \in 0..n}

\* ------------------------------------------------------- scipy linregress

\* stats.linregress(x, y): raises on empty input and, for more than one
\* point, when all x are identical; r = 0 when either centred sum of
\* squares is 0; slope = ssxym / ssxm (0/0 = nan for a single point).
linregress(xs, ys) ==
    LET n   == Len(xs)
        sx  == SumSeq(xs)
        sy  == SumSeq(ys)
        Sxx == n * Dot(xs, xs) - sx * sx
        Syy == n * Dot(ys, ys) - sy * sy
        Sxy == n * Dot(xs, ys) - sx * sy
    IN  IF n = 0 THEN [error |-> "Inputs must not be empty."]
        ELSE IF n > 1 /\ Sxx = 0
            THEN [error |-> "all x values are identical"]
        ELSE [slope     |-> Rat(Sxy, Sxx),
              intercept |-> Rat(sy * Sxx - Sxy * sx, n * Sxx),
              r_squared |-> IF Sxx = 0 \/ Syy = 0 THEN RatInt(0)
                            ELSE Rat(Sxy * Sxy, Sxx * Syy)]

IsError(r) == "error" \in DOMAIN r

\* dict.get(key, False) on a result that may be an error dictionary.
Get(r, key) == IF key \in DOMAIN r THEN r[key] ELSE FALSE

\* -------------------------------------------------------- MappingAnalyzer

\* The acceptance bound of the linear test, 0.95.
LinearThreshold == Rat(95, 100)

\* Variant of the linear test that accepts from R^2 > 0.5 on.
analyze_linear_mapping_half(d) ==
    LET fit == linregress(Xs(d), Ys(d))
    IN  IF IsError(fit) THEN [error |-> "linear analysis failed"]
        ELSE [is_linear |-> RatLess(Rat(1, 2), fit.r_squared),
              slope     |-> fit.slope,
              intercept |-> fit.intercept,
              r_squared |-> fit.r_squared]

analyze_linear_mapping(d) ==
    LET fit == linregress(Xs(d), Ys(d))
    IN  IF IsError(fit) THEN [error |-> "linear analysis failed"]
        ELSE [is_linear |-> RatLess(LinearThreshold, fit.r_squared),
              slope     |-> fit.slope,
              intercept |-> fit.intercept,
              r_squared |-> fit.r_squared]

\* Variant of the constant test that takes the smallest delta for the
\* constant whatever the other deltas are.
find_constant_mapping_smallest(d) ==
    LET changes == Range(Cs(d))
    IN  IF changes = {} THEN [error |-> "constant mapping analysis failed"]
        ELSE [is_constant     |-> TRUE,
              constant_change |-> SetMin(changes),
              confidence      |-> RatInt(1)]

\* data['change'].unique(); changes.min() raises on an empty Dataset.
find_constant_mapping(d) ==
    LET changes == Range(Cs(d))
    IN  IF Cardinality(changes) = 1
            THEN [is_constant     |-> TRUE,
                  constant_change |-> CHOOSE c \in changes : TRUE,
                  confidence      |-> RatInt(1)]
        ELSE IF changes = {} THEN [error |-> "constant mapping analysis failed"]
        ELSE [is_constant    |-> FALSE,
              unique_changes |-> Cardinality(changes),
              change_range   |-> <<SetMin(changes), SetMax(changes)>>]

\* data.sort_values('original_value'): ascending, records with equal
\* original values in their Dataset order (numpy sorts a short array by
\* insertion).
RECURSIVE InsertSorted(_, _)
InsertSorted(s, r) ==
    IF s = <<>> THEN <<r>>
    ELSE IF s[Len(s)].original_value <= r.original_value THEN Append(s, r)
    ELSE Append(InsertSorted(SubSeq(s, 1, Len(s) - 1), r), s[Len(s)])

RECURSIVE sort_values(_)
sort_values(d) ==
    IF d = <<>> THEN <<>>
    ELSE InsertSorted(sort_values(SubSeq(d, 1, Len(d) - 1)), d[Len(d)])

\* sorted(list(set(points)))
RECURSIVE SortedSeq(_)
SortedSeq(S) ==
    IF S = {} THEN <<>>
    ELSE LET m == SetMin(S) IN <<m>> \o SortedSeq(S \ {m})

\* The slope-change threshold of the scan, 0.1.
SlopeThreshold == Rat(1, 10)

RatAbsDiff(p, q) ==
    Rat(Abs(p.num * q.den - q.num * p.den), p.den * q.den)

\* The regression of the window starting at 0-based record i.
WindowFit(data, i) ==
    LET w == SubSeq(data, i + 1, i + WindowSize) IN linregress(Xs(w), Ys(w))

\* _find_turning_points on the sorted Dataset: 0-based window centres where
\* the slope differs from the previous window's by more than the threshold,
\* strictly inside the edge guard; any exception of a window regression
\* ends the scan with no turning point.
_find_turning_points(data) ==
    LET n    == Len(data)
        last == n - WindowSize
    IN  IF n < WindowSize * 2 THEN <<>>
        ELSE IF \E i \in 0..last : IsError(WindowFit(data, i)) THEN <<>>
        ELSE LET slope(i) == WindowFit(data, i).slope
                 points   == {i + WindowSize \div 2 : i \in
                                {j \in 1..last :
                                    RatLess(SlopeThreshold,
                                            RatAbsDiff(slope(j), slope(j - 1)))}}
             IN  SortedSeq({tp \in points : EdgeGuard < tp /\ tp < n - EdgeGuard})

\* One Segment: the linear analysis of sorted records lo..hi (0-based,
\* inclusive) with its boundary values and member count; lo and hi are the
\* iloc bounds the loop used.
Segment(sorted, lo, hi) ==
    LET seg == SubSeq(sorted, lo + 1, hi + 1)
    IN  analyze_linear_mapping(seg) @@
        [start_value |-> seg[1].original_value,
         end_value   |-> seg[Len(seg)].original_value,
         data_count  |-> Len(seg),
         lo |-> lo, hi |-> hi]

\* Variant of the cap that keeps the last k turning points.
CapLast(tps, k) ==
    IF Len(tps) > k THEN SubSeq(tps, Len(tps) - k + 1, Len(tps)) ELSE tps

\* turning_points[:max_segments - 1]
Cap(tps, k) == IF Len(tps) > k THEN SubSeq(tps, 1, k) ELSE tps

\* The sub-ranges the loop of find_piecewise_mapping visits, in order: one
\* ending at each turning point, then the rest if any.
SubRanges(tps, n) ==
    LET m     == Len(tps)
        lo(k) == IF k = 1 THEN 0 ELSE tps[k - 1] + 1
        upto  == [k \in 1..m |-> <<lo(k), tps[k]>>]
    IN  IF tps[m] + 1 < n THEN Append(upto, <<tps[m] + 1, n - 1>>) ELSE upto

\* Variant of the size filter that keeps every sub-range.
LongEnoughAlways(rg) == TRUE

\* Variant of the size filter that keeps a sub-range of MinSegment records.
LongEnoughOrEqual(rg) == rg[2] - rg[1] + 1 >= MinSegment

\* A sub-range is fitted only with more than MinSegment records.
LongEnough(rg) == rg[2] - rg[1] + 1 > MinSegment

find_piecewise_mapping(d) ==
    LET sorted == sort_values(d)
        found  == _find_turning_points(sorted)
    IN  IF d = <<>> THEN [error |-> "piecewise mapping analysis failed"]
        ELSE IF Len(found) = 0 THEN [is_piecewise |-> FALSE, segments |-> 1]
        ELSE LET tps  == Cap(found, max_segments - 1)
                 kept == SelectSeq(SubRanges(tps, Len(sorted)), LongEnough)
                 segs == [k \in 1..Len(kept) |->
                            Segment(sorted, kept[k][1], kept[k][2])]
             IN  [is_piecewise   |-> Len(segs) > 1,
                  segments       |-> segs,
                  turning_points |-> tps,
                  total_segments |-> Len(segs)]


\* ------------------------------------------------------------ ModelFitter

\* log2 of a power of two (the values a log-family fit is given here).
Log2(v) == CHOOSE k \in 0..30 : 2 ^ k = v

\* linregress on np.log of the series flagged in logx / logy.  np.log of 0
\* is -inf, which makes every moment, and so R^2, nan without raising.
LogRegress(xs, ys, logx, logy) ==
    LET bad(s) == \E i \in 1..Len(s) : s[i] <= 0
        tr(s)  == [i \in 1..Len(s) |-> Log2(s[i])]
    IN  IF (logx /\ bad(xs)) \/ (logy /\ bad(ys))
            THEN [slope |-> NaN, intercept |-> NaN, r_squared |-> NaN]
        ELSE linregress(IF logx THEN tr(xs) ELSE xs, IF logy THEN tr(ys) ELSE ys)

AnyNonPositive(s) == \E i \in 1..Len(s) : s[i] <= 0

NeedsPositive(family) == [error |-> "needs positive values", family |-> family]

FitFailed(family) == [error |-> "fit failed", family |-> family]

Fitted(family, fit) ==
    IF IsError(fit) THEN FitFailed(family)
    ELSE [model_type |-> family, r_squared |-> fit.r_squared]

_fit_linear(xs, ys) == Fitted("linear", linregress(xs, ys))

\* np.polyfit(x, y, 2) and R^2 = 1 - ss_res / ss_tot.  With z = x^2 and S the
\* centred cross products (times n), the least-squares R^2 is
\* (Sxy^2 Szz - 2 Sxy Szy Sxz + Szy^2 Sxx) / ((Sxx Szz - Sxz^2) Syy).  With fewer
\* than three distinct x the system is rank deficient and lstsq returns the
\* fit of the per-x means: the R^2 of the straight line for two distinct x,
\* 0 for one.  A constant y makes ss_tot = 0 and R^2 = 1 - 0/0 = nan, not an
\* exception.  polyfit raises on an empty x.
_fit_polynomial(xs, ys) ==
    LET n   == Len(xs)
        zs  == [i \in 1..n |-> xs[i] * xs[i]]
        S(a, b) == n * Dot(a, b) - SumSeq(a) * SumSeq(b)
        Sxx == S(xs, xs)
        Sxz == S(xs, zs)
        Szz == S(zs, zs)
        Sxy == S(xs, ys)
        Szy == S(zs, ys)
        Syy == S(ys, ys)
        D   == Sxx * Szz - Sxz * Sxz
        r2  == IF Syy = 0 THEN NaN
               ELSE IF D # 0
                   THEN Rat(Sxy * Sxy * Szz - 2 * Sxy * Szy * Sxz + Szy * Szy * Sxx,
                            D * Syy)
               ELSE IF Sxx # 0 THEN Rat(Sxy * Sxy, Sxx * Syy)
               ELSE RatInt(0)
    IN  IF n = 0 THEN FitFailed("polynomial")
        ELSE [model_type |-> "polynomial", r_squared |-> r2]

_fit_power(xs, ys) ==
    IF AnyNonPositive(xs) \/ AnyNonPositive(ys) THEN NeedsPositive("power")
    ELSE Fitted("power", LogRegress(xs, ys, TRUE, TRUE))

_fit_logarithmic(xs, ys) ==
    IF AnyNonPositive(xs) THEN NeedsPositive("logarithmic")
    ELSE Fitted("logarithmic", LogRegress(xs, ys, TRUE, FALSE))

\* Variant of the exponential fit that tests the original values for
\* positivity instead of the target values.
_fit_exponential_tests_x(xs, ys) ==
    IF AnyNonPositive(xs) THEN NeedsPositive("exponential")
    ELSE Fitted("exponential", LogRegress(xs, ys, FALSE, TRUE))

_fit_exponential(xs, ys) ==
    IF AnyNonPositive(ys) THEN NeedsPositive("exponential")
    ELSE Fitted("exponential", LogRegress(xs, ys, FALSE, TRUE))

\* The families in the order fit_multiple_models stores them.
FamilyOrder == <<"linear", "polynomial", "power", "logarithmic", "exponential">>

NoBest == [model_name |-> "", r_squared |-> RatInt(-1)]

\* The loop of _find_best_model over families k, k+1, ...: a family without
\* error replaces the best so far when its R^2 is strictly greater.
RECURSIVE BestFrom(_, _, _)
BestFrom(results, k, best) ==
    IF k > Len(FamilyOrder) THEN best
    ELSE LET name == FamilyOrder[k]
             r    == results[name]
         IN  BestFrom(results, k + 1,
                      IF ~IsError(r) /\ RatLess(best.r_squared, r.r_squared)
                          THEN [model_name |-> name, r_squared |-> r.r_squared,
                                result |-> r]
                      ELSE best)

_find_best_model(results) ==
    LET best == BestFrom(results, 1, NoBest)
    IN  IF best = NoBest THEN [error |-> "no usable model"] ELSE best

fit_multiple_models(d) ==
    LET xs == Xs(d)
        ys == Ys(d)
        results == [linear      |-> _fit_linear(xs, ys),
                    polynomial  |-> _fit_polynomial(xs, ys),
                    power       |-> _fit_power(xs, ys),
                    logarithmic |-> _fit_logarithmic(xs, ys),
                    exponential |-> _fit_exponential(xs, ys)]
    IN  IF d = <<>> THEN [error |-> "model fitting failed"]
        ELSE results @@ [best_model |-> _find_best_model(results)]

\* ------------------------------------------------------- AlgorithmDeriver

\* max(candidates, key = r_squared or 0): the first candidate stays unless a
\* later one has a strictly greater key.
RECURSIVE MaxByRSquared(_, _, _)
MaxByRSquared(cands, k, best) ==
    LET key(r) == IF "r_squared" \in DOMAIN r THEN r.r_squared ELSE RatInt(0)
    IN  IF k > Len(cands) THEN best
        ELSE MaxByRSquared(cands, k + 1,
                           IF RatLess(key(best), key(cands[k])) THEN cands[k]
                           ELSE best)

\* The deriver's own _fit_polynomial, _fit_exponential and _fit_logarithmic
\* are the same code as the fitter's.
_try_other_models(d) ==
    LET xs == Xs(d)
        ys == Ys(d)
        cands == <<_fit_polynomial(xs, ys), _fit_exponential(xs, ys),
                   _fit_logarithmic(xs, ys)>>
    IN  IF d = <<>> THEN [error |-> "model fitting failed"]
        ELSE MaxByRSquared(cands, 2, cands[1])

\* The hypothesis tests of derive_algorithm in the order it calls them.
derive_order == <<"constant", "linear", "piecewise", "generic">>

\* Variant of the test order that goes from the constant test straight to
\* the piecewise test.
derive_next_skips_linear(test) ==
    CASE test = "constant"  -> "piecewise"
      [] test = "linear"    -> "piecewise"
      [] test = "piecewise" -> "generic"

\* The test derive_algorithm calls after `test` did not accept.
derive_next(test) ==
    CASE test = "constant"  -> "linear"
      [] test = "linear"    -> "piecewise"
      [] test = "piecewise" -> "generic"

\* One test of derive_algorithm on d: whether it accepts and what
\* derive_algorithm returns if it does.
derive_test(test, d) ==
    CASE test = "constant" ->
            LET r == find_constant_mapping(d)
            IN  [accept |-> Get(r, "is_constant"),
                 value  |-> [algorithm_type |-> "constant", algorithm |-> r,
                             confidence |-> RatInt(1)]]
      [] test = "linear" ->
            LET r == analyze_linear_mapping(d)
            IN  [accept |-> Get(r, "is_linear"),
                 value  |-> [algorithm_type |-> "linear", algorithm |-> r,
                             confidence |-> IF "r_squared" \in DOMAIN r
                                            THEN r.r_squared ELSE RatInt(0)]]
      [] test = "piecewise" ->
            LET r == find_piecewise_mapping(d)
            IN  [accept |-> Get(r, "is_piecewise"),
                 value  |-> [algorithm_type |-> "piecewise_linear", algorithm |-> r,
                             confidence |-> Rat(8, 10)]]
      [] test = "generic" ->
            [accept |-> TRUE,
             value  |-> [algorithm_type |-> "complex",
                         algorithm |-> _try_other_models(d),
                         confidence |-> Rat(5, 10)]]

\* ------------------------------------------------------------ DataManager

NoData == [none |-> TRUE, rows |-> <<>>]

EmptyStats == [empty |-> TRUE]

NoResult == [none |-> TRUE]

\* No object in a caller's hands; the engine's current_analysis = {}.
NotHanded == [alias |-> "none"]

NoAnalysis == [empty |-> TRUE]

\* _optimize_dtypes: pd.to_numeric(downcast = 'unsigned') gives a column the
\* narrowest of uint8, uint16, uint32 that holds its values, downcast =
\* 'integer' the narrowest of int8, int16, int32.
UnsignedWidth(col) ==
    LET m == SetMax(Range(col))
    IN  IF m <= 255 THEN 8 ELSE IF m <= 65535 THEN 16 ELSE 32

SignedWidth(col) ==
    LET lo == SetMin(Range(col))
        hi == SetMax(Range(col))
    IN  IF -128 <= lo /\ hi <= 127 THEN 8
        ELSE IF -32768 <= lo /\ hi <= 32767 THEN 16 ELSE 32

\* series ** 2 keeps the column's integer type: the square wraps modulo 2^w.
SquareUnsigned(v, w) == (v * v) % (2 ^ w)

SquareSigned(v, w) ==
    LET m == (v * v) % (2 ^ w)
    IN  IF m >= 2 ^ (w - 1) THEN m - 2 ^ w ELSE m

\* The square root of a rational, kept as its radicand: sqrt(nan) is nan.
Sqrt(v) == [sqrt_of |-> v]

\* Series.min / max / mean / std of pandas over the full series col; std is
\* the sample standard deviation (ddof = 1), nan for a single value.
SeriesStats(col) ==
    LET n  == Len(col)
        sm == SumSeq(col)
    IN  [min  |-> SetMin(Range(col)),
         max  |-> SetMax(Range(col)),
         mean |-> Rat(sm, n),
         std  |-> Sqrt(Rat(n * Dot(col, col) - sm * sm, n * (n - 1)))]

\* The summary the direct branch and the fallback branch build from a frame;
\* total is the record count stored with it.
FrameStats(frame, total) ==
    [total_records  |-> total,
     original_range |-> SeriesStats(Xs(frame)),
     target_range   |-> SeriesStats(Ys(frame)),
     change_stats   |-> SeriesStats(Cs(frame))]

Min2(a, b) == IF a <= b THEN a ELSE b
Max2(a, b) == IF a >= b THEN a ELSE b

ZeroTotals == [count |-> 0]

\* One round of the chunk loop: the running totals after the chunk.  min and
\* max start at +inf and -inf, so the first chunk sets them.
AddChunk(tot, chunk, wo, wt, wc) ==
    LET first == tot.count = 0
        sq(col, w, signed) ==
            SumSeq([i \in 1..Len(col) |->
                      IF signed THEN SquareSigned(col[i], w)
                      ELSE SquareUnsigned(col[i], w)])
        run(f, v) == IF first THEN v ELSE tot[f] + v
        lo(f, col) == IF first THEN SetMin(Range(col))
                      ELSE Min2(tot[f], SetMin(Range(col)))
        hi(f, col) == IF first THEN SetMax(Range(col))
                      ELSE Max2(tot[f], SetMax(Range(col)))
    IN  [original_sum    |-> run("original_sum", SumSeq(Xs(chunk))),
         original_sum_sq |-> run("original_sum_sq", sq(Xs(chunk), wo, FALSE)),
         target_sum      |-> run("target_sum", SumSeq(Ys(chunk))),
         target_sum_sq   |-> run("target_sum_sq", sq(Ys(chunk), wt, FALSE)),
         change_sum      |-> run("change_sum", SumSeq(Cs(chunk))),
         change_sum_sq   |-> run("change_sum_sq", sq(Cs(chunk), wc, TRUE)),
         count           |-> tot.count + Len(chunk),
         orig_min   |-> lo("orig_min", Xs(chunk)),
         orig_max   |-> hi("orig_max", Xs(chunk)),
         target_min |-> lo("target_min", Ys(chunk)),
         target_max |-> hi("target_max", Ys(chunk)),
         change_min |-> lo("change_min", Cs(chunk)),
         change_max |-> hi("change_max", Cs(chunk))]

\* for i in range(0, len(data), chunk_size): the totals after the chunks that
\* start at 0-based record i and later.
RECURSIVE ChunkLoop(_, _, _, _)
ChunkLoop(d, i, size, tot) ==
    IF i >= Len(d) THEN tot
    ELSE ChunkLoop(d, i + size, size,
                   AddChunk(tot, SubSeq(d, i + 1, Min2(i + size, Len(d))),
                            UnsignedWidth(Xs(d)), UnsignedWidth(Ys(d)),
                            SignedWidth(Cs(d))))

\* safe_std: max(0, sum_sq / count - (sum / count)^2) ** 0.5
safe_std(sum_sq, sum_val, count) ==
    LET variance == Rat(count * sum_sq - sum_val * sum_val, count * count)
    IN  Sqrt(IF RatLess(variance, RatInt(0)) THEN RatInt(0) ELSE variance)

\* The summary of the chunked branch over d in chunks of `size` records.
ChunkedStats(d, size) ==
    LET t == ChunkLoop(d, 0, size, ZeroTotals)
        n == t.count
    IN  [total_records  |-> n,
         original_range |->
            [min |-> t.orig_min, max |-> t.orig_max,
             mean |-> Rat(t.original_sum, n),
             std |-> safe_std(t.original_sum_sq, t.original_sum, n)],
         target_range   |->
            [min |-> t.target_min, max |-> t.target_max,
             mean |-> Rat(t.target_sum, n),
             std |-> safe_std(t.target_sum_sq, t.target_sum, n)],
         change_stats   |->
            [min |-> t.change_min, max |-> t.change_max,
             mean |-> Rat(t.change_sum, n),
             std |-> safe_std(t.change_sum_sq, t.change_sum, n)]]

\* The branch _calculate_basic_statistics takes: the direct one up to
\* chunk_size records, the chunked one above; an exception inside either
\* (raises) leads to the subsample fallback.
StatBranch(d, raises) ==
    IF raises THEN "fallback"
    ELSE IF Len(d) <= StatChunk THEN "direct" ELSE "chunked"

\* The rows a subsample of the size the fallback asks for can hold: sample(n =
\* min(100000, len), random_state = 42) draws without replacement.
Subsamples(d) ==
    {pick \in SUBSET (1..Len(d)) : Cardinality(pick) = Min2(SampleCap, Len(d))}

Take(d, pick) ==
    LET idx == SortedSeq(pick) IN [k \in 1..Len(idx) |-> d[idx[k]]]

\* The statistics cache _calculate_basic_statistics leaves for Dataset d.
_calculate_basic_statistics(d, raises, pick) ==
    LET branch == StatBranch(d, raises)
    IN  IF branch = "direct" THEN FrameStats(d, Len(d))
        ELSE IF branch = "chunked" THEN ChunkedStats(d, StatChunk)
        ELSE FrameStats(Take(d, pick), Len(d))

\* ---------------------------------------------------------- state machine

Init ==
    /\ current_data = NoData
    /\ statistics_cache = EmptyStats
    /\ stat_path = "none"
    /\ op = "none"
    /\ pc = "idle"
    /\ tests_run = <<>>
    /\ result = NoResult
    /\ file = <<>>
    /\ data_lock = "free"
    /\ reader = "out"
    /\ handed = NotHanded
    /\ current_analysis = NoAnalysis
    /\ locals = <<>>
    /\ emitted = <<>>

\* DataManager.load_data of a file that parses to Dataset d.  An empty
\* Dataset is stored and reported as failure before any statistics are
\* computed; otherwise the statistics are recomputed (raises: an exception
\* inside the statistics, e.g. MemoryError; pick: the rows the fallback
\* samples).
load_data(d, raises, pick) ==
    /\ pc = "idle"
    /\ current_data' = [none |-> FALSE, rows |-> d]
    /\ IF d = <<>>
          THEN UNCHANGED <<statistics_cache, stat_path>>
          ELSE /\ statistics_cache' = _calculate_basic_statistics(d, raises, pick)
               /\ stat_path' = StatBranch(d, raises)
    /\ op' = "load_data"
    /\ result' = [success |-> d # <<>>,
                  message |-> IF d # <<>> THEN "data loaded" ELSE "no valid data found"]
    /\ tests_run' = <<>>
    /\ UNCHANGED <<pc, around>>

\* A load whose statistics raise nothing.
load_dataset(d) == load_data(d, FALSE, {})

\* DataManager.clear_data
clear_data ==
    /\ pc = "idle"
    /\ current_data' = NoData
    /\ statistics_cache' = EmptyStats
    /\ stat_path' = "none"
    /\ op' = "clear_data"
    /\ result' = NoResult
    /\ tests_run' = <<>>
    /\ UNCHANGED <<pc, around>>

\* Records of the statistics specification: values whose squares fit their
\* column type and values (16, 20) whose squares do not.
StatPool == {Rec(3, 5), Rec(16, 20), Rec(20, 3)}

StatInputs == Datasets(StatPool, MaxLen)

Next ==
    \/ \E d \in StatInputs : load_data(d, FALSE, {})
    \/ \E d \in StatInputs \ {<<>>} : \E pick \in Subsamples(d) : load_data(d, TRUE, pick)
    \/ clear_data

Spec == Init /\ [][Next]_vars

\* Records of the analyzer specification: target = 3 x original + 7 on
\* three original values, a constant offset of 7, and a point off both.
AnalyzerPool ==
    <<Rec(0, 7), Rec(1, 10), Rec(2, 13), Rec(1, 8), Rec(2, 7)>>

\* The Datasets of at most n records over the records of pool, each listed
\* once, in pool order (no analysis of these specifications depends on the
\* order of the records).
Combinations(pool, n) ==
    LET idx == UNION {[1..k -> 1..Len(pool)] : k \in 0..n}
        asc == {s \in idx : \A i \in 1..(Len(s) - 1) : s[i] <= s[i + 1]}
    IN  {[i \in 1..Len(s) |-> pool[s[i]]] : s \in asc}

AnalyzerInputs == Combinations(AnalyzerPool, MaxLen)

\* An analysis entry point called on the current Dataset, as AlgorithmEngine
\* calls it; f is the value it returns.
Call(name, f) ==
    /\ pc = "idle"
    /\ ~current_data.none
    /\ op' = name
    /\ result' = f
    /\ tests_run' = <<>>
    /\ UNCHANGED <<current_data, statistics_cache, stat_path, pc, around>>

call_find_constant_mapping ==
    Call("find_constant_mapping", find_constant_mapping(current_data.rows))

call_analyze_linear_mapping ==
    Call("analyze_linear_mapping", analyze_linear_mapping(current_data.rows))

call_find_piecewise_mapping ==
    Call("find_piecewise_mapping", find_piecewise_mapping(current_data.rows))

call_fit_multiple_models ==
    Call("fit_multiple_models", fit_multiple_models(current_data.rows))

\* derive_algorithm, one hypothesis test per step: the test is called, and
\* derive_algorithm returns its value if it accepts and goes on to the next
\* test otherwise.
derive_step(test) ==
    /\ ~current_data.none
    /\ pc = (IF test = "constant" THEN "idle" ELSE test)
    /\ LET t == derive_test(test, current_data.rows)
       IN  /\ tests_run' = (IF test = "constant" THEN <<>> ELSE tests_run) \o <<test>>
           /\ IF t.accept
                 THEN /\ result' = t.value
                      /\ pc' = "idle"
                 ELSE /\ result' = NoResult
                      /\ pc' = derive_next(test)
    /\ op' = "derive_algorithm"
    /\ UNCHANGED <<current_data, statistics_cache, stat_path, around>>

\* Datasets of the piecewise specification: original values 0, 1, 2, ... and
\* a target that climbs by 1 or by 5 from each record to the next, in
\* ascending or in descending order of the original value.
Climb(incs) ==
    LET RECURSIVE y(_)
        y(i) == IF i = 1 THEN 0 ELSE y(i - 1) + incs[i - 1]
    IN  [i \in 1..(Len(incs) + 1) |-> Rec(i - 1, y(i))]

Reverse(s) == [i \in 1..Len(s) |-> s[Len(s) + 1 - i]]

\* The number of places where the climb changes its slope.
Bends(incs) == Cardinality({i \in 1..(Len(incs) - 1) : incs[i] # incs[i + 1]})

\* A Dataset whose first WindowSize records share one original value (it is
\* given whole, and cut to one record less than two windows).
Plateau ==
    [i \in 1..PMaxLen |-> Rec(IF i <= WindowSize THEN 0 ELSE i - WindowSize, i)]

PiecewiseInputs ==
    LET all == [1..(PMaxLen - 1) -> {1, 5}]
        up  == {Climb(incs) : incs \in {s \in all : Bends(s) <= 2}}
    IN  up \cup {Reverse(Climb(incs)) : incs \in {s \in all : Bends(s) <= 1}}
           \cup {Plateau, SubSeq(Plateau, 1, 2 * WindowSize - 1)}

NextPiecewise ==
    \/ \E d \in PiecewiseInputs : load_dataset(d)
    \/ call_find_piecewise_mapping

SpecPiecewise == Init /\ [][NextPiecewise]_vars

NextAnalyzer ==
    \/ \E d \in AnalyzerInputs : load_dataset(d)
    \/ call_find_constant_mapping
    \/ call_analyze_linear_mapping

SpecAnalyzer == Init /\ [][NextAnalyzer]_vars

\* Records of the fitter specification: original and target values that are
\* 0 or powers of two.
FitPool == <<Rec(1, 1), Rec(2, 4), Rec(4, 4), Rec(4, 8), Rec(0, 2), Rec(4, 0)>>

\* The Datasets of the fitter specification: the short ones over FitPool and
\* the four all-positive records together.
FitInputs == Combinations(FitPool, MaxLen) \cup {SubSeq(FitPool, 1, 4)}

NextFitter ==
    \/ \E d \in FitInputs : load_dataset(d)
    \/ call_fit_multiple_models

SpecFitter == Init /\ [][NextFitter]_vars

\* Whether a structured test of derive_algorithm accepts d.
Accepts(test, d) == derive_test(test, d).accept

\* The Datasets of the deriver specification: the fitter's, and of the long
\* ones those a structured test accepts (the normal equations of the generic
\* fit of a long Dataset leave TLC's integers).
DeriveInputs ==
    FitInputs \cup
    {d \in PiecewiseInputs :
        Accepts("constant", d) \/ Accepts("linear", d) \/ Accepts("piecewise", d)}

NextDerive ==
    \/ \E d \in DeriveInputs : load_dataset(d)
    \/ \E test \in Range(derive_order) : derive_step(test)

SpecDerive == Init /\ [][NextDerive]_vars

\* ---------------------------------------------------------------- threads

\* An object in a caller's hands: value is what it holds; alias says what it
\* shares with the object it was made from: "deep" nothing (DataFrame.copy()),
\* "shallow" the nested dictionaries (dict.copy()), "same" everything (the
\* stored object itself was returned).
Handed(alias, kind, value) == [alias |-> alias, kind |-> kind, value |-> value]

\* `with self._data_lock:` of get_data (which = "get_data") and of
\* get_statistics (which = "get_statistics"): the thread acquires the lock.
get_enter(which) ==
    /\ reader = "out"
    /\ data_lock = "free"
    /\ data_lock' = "reader"
    /\ reader' = which
    /\ UNCHANGED <<core, file, handed, current_analysis, locals, emitted>>

\* get_data, the test `self.current_data is not None`: an empty DataFrame is
\* returned when it fails, the copy follows when it holds.
get_data_check ==
    /\ reader = "get_data"
    /\ IF current_data.none
          THEN /\ handed' = Handed("deep", "data", <<>>)
               /\ reader' = "out"
               /\ data_lock' = "free"
          ELSE /\ reader' = "get_data_copy"
               /\ UNCHANGED <<handed, data_lock>>
    /\ UNCHANGED <<core, file, current_analysis, locals, emitted>>

\* get_data, `self.current_data.copy()`: the field is read again; on None the
\* call raises AttributeError.  The lock is released either way.
get_data_copy ==
    /\ reader = "get_data_copy"
    /\ handed' = IF current_data.none
                    THEN [alias |-> "none", raised |-> "AttributeError"]
                    ELSE Handed("deep", "data", current_data.rows)
    /\ reader' = "out"
    /\ data_lock' = "free"
    /\ UNCHANGED <<core, file, current_analysis, locals, emitted>>

\* get_statistics: return self.statistics_cache.copy()
get_statistics_return ==
    /\ reader = "get_statistics"
    /\ handed' = Handed("shallow", "statistics", statistics_cache)
    /\ reader' = "out"
    /\ data_lock' = "free"
    /\ UNCHANGED <<core, file, current_analysis, locals, emitted>>

\* load_data on another thread than the reader's, in its two writes: the
\* assignment of the parsed Dataset to current_data ...
load_data_assign(d) ==
    /\ pc = "idle"
    /\ current_data' = [none |-> FALSE, rows |-> d]
    /\ op' = "load_data"
    /\ tests_run' = <<>>
    /\ IF d = <<>>
          THEN /\ pc' = "idle"
               /\ result' = [success |-> FALSE, message |-> "no valid data found"]
          ELSE /\ pc' = "load_statistics"
               /\ result' = NoResult
    /\ UNCHANGED <<statistics_cache, stat_path, around>>

\* ... and the assignment of the statistics by _calculate_basic_statistics.
load_data_statistics ==
    /\ pc = "load_statistics"
    /\ statistics_cache' = _calculate_basic_statistics(current_data.rows, FALSE, {})
    /\ stat_path' = StatBranch(current_data.rows, FALSE)
    /\ pc' = "idle"
    /\ result' = [success |-> TRUE, message |-> "data loaded"]
    /\ UNCHANGED <<current_data, op, tests_run, around>>

\* clear_data in its writes: current_data = None ...
clear_data_assign ==
    /\ pc = "idle"
    /\ current_data' = NoData
    /\ pc' = "clear_statistics"
    /\ op' = "clear_data"
    /\ result' = NoResult
    /\ tests_run' = <<>>
    /\ UNCHANGED <<statistics_cache, stat_path, around>>

\* ... and statistics_cache = {}.
clear_data_statistics ==
    /\ pc = "clear_statistics"
    /\ statistics_cache' = EmptyStats
    /\ stat_path' = "none"
    /\ pc' = "idle"
    /\ UNCHANGED <<current_data, op, tests_run, result, around>>

\* The Datasets of the thread specification: none or one record.
ThreadInputs == {d \in StatInputs : Len(d) <= 1}

NextThreads ==
    \/ \E which \in {"get_data", "get_statistics"} : get_enter(which)
    \/ get_data_check
    \/ get_data_copy
    \/ get_statistics_return
    \/ \E d \in ThreadInputs : load_data_assign(d)
    \/ load_data_statistics
    \/ clear_data_assign
    \/ clear_data_statistics

SpecThreads == Init /\ [][NextThreads]_vars

\* ------------------------------------------------------------- FileParser

\* An exception that leaves a function.
Raised(what) == [raised |-> what]

IsRaised(r) == "raised" \in DOMAIN r

\* A line of a text file, by what the parser can see in it.  The kinds:
\*   "header"  the DICOM header line;
\*   "simple"  original and target value around an arrow, nothing else;
\*   "pixel"   the fully annotated form written without blanks:
\*             [index]position(x,y)original->target(change:c,p%);
\*   "dicom"   the fully annotated form written with blanks;
\*   "marked"  the words for 'original value' and the arrow, but no digits
\*             where the patterns want them;
\*   "note"    any other text.
Line(kind) == [kind |-> kind]

SimpleLine(o, t) == [kind |-> "simple", original |-> o, target |-> t]

Annotated(kind, idx, x, y, o, t, c, pct) ==
    [kind |-> kind, index |-> idx, x |-> x, y |-> y, original |-> o,
     target |-> t, change |-> c, percent |-> pct]

\* The substrings detect_format looks for, per line.
Markers(line) ==
    IF line.kind = "header" THEN {"dicom_header"}
    ELSE IF line.kind \in {"pixel", "dicom"} THEN {"position(", "original", "arrow"}
    ELSE IF line.kind \in {"simple", "marked"} THEN {"original", "arrow"}
    ELSE {}

\* The lines detect_format reads (10 in the program).
DetectLines == 1

first_lines(f) == SubSeq(f, 1, Min2(DetectLines, Len(f)))

\* FileParser.detect_format: the tests in the order of the code.
detect_format(f) ==
    LET seen == {Markers(first_lines(f)[i]) : i \in 1..Len(first_lines(f))}
    IN  IF \E m \in seen : "dicom_header" \in m THEN "dicom_format"
        ELSE IF \E m \in seen : {"original", "arrow"} \subseteq m
            THEN "simple_mapping"
        ELSE IF \E m \in seen : {"position(", "original", "arrow"} \subseteq m
            THEN "pixel_mapping"
        ELSE "unknown"

supported_formats == {"pixel_mapping", "simple_mapping", "dicom_format"}

\* Which lines the regular expression of each grammar finds a match in: the
\* simple pattern allows blanks around the arrow and is searched anywhere in
\* the line, so it matches inside both annotated forms; the two annotated
\* patterns differ in the blanks they demand.
Matches(format, line) ==
    IF format = "simple_mapping" THEN line.kind \in {"simple", "pixel", "dicom"}
    ELSE IF format = "pixel_mapping" THEN line.kind = "pixel"
    ELSE line.kind = "dicom"

\* The record a grammar yields for a matching line: the simple grammar
\* derives delta and percentage, the annotated grammars take both from the
\* text.
Yield(format, line, line_num) ==
    IF format = "simple_mapping"
        THEN [line_number    |-> line_num,
              original_value |-> line.original,
              target_value   |-> line.target,
              change         |-> line.target - line.original,
              change_percent |->
                  IF line.original # 0
                      THEN Rat((line.target - line.original) * 100, line.original)
                  ELSE RatInt(0)]
    ELSE [line_number    |-> line_num,
          index          |-> line.index,
          x              |-> line.x,
          y              |-> line.y,
          original_value |-> line.original,
          target_value   |-> line.target,
          change         |-> line.change,
          change_percent |-> line.percent]

\* _parse_pixel_mapping, _parse_simple_mapping, _parse_dicom_format: the
\* records of the matching lines, in file order.
RECURSIVE ParseLines(_, _, _)
ParseLines(format, f, line_num) ==
    IF line_num > Len(f) THEN <<>>
    ELSE IF Matches(format, f[line_num])
        THEN <<Yield(format, f[line_num], line_num)>>
                 \o ParseLines(format, f, line_num + 1)
    ELSE ParseLines(format, f, line_num + 1)

_parse_simple_mapping(f) == ParseLines("simple_mapping", f, 1)

_parse_pixel_mapping(f) == ParseLines("pixel_mapping", f, 1)

_parse_dicom_format(f) == ParseLines("dicom_format", f, 1)

\* FileParser.parse_line_by_line: the records, or the ValueError of an
\* unsupported format.
parse_line_by_line(f, format_type) ==
    IF format_type \notin supported_formats THEN Raised("ValueError")
    ELSE IF format_type = "simple_mapping" THEN [records |-> _parse_simple_mapping(f)]
    ELSE IF format_type = "pixel_mapping" THEN [records |-> _parse_pixel_mapping(f)]
    ELSE [records |-> _parse_dicom_format(f)]

\* FileParser.get_file_info: every exception becomes an 'error' entry.
get_file_info(f) ==
    LET format_type == detect_format(f)
        parsed      == parse_line_by_line(f, format_type)
    IN  IF IsRaised(parsed) THEN [error |-> "unsupported file format"]
        ELSE [total_lines |-> Len(f), format_type |-> format_type]

\* int(1 / sample_rate) for a rate num/den: the quotient, truncated.
SampleStep(rate) == rate.den \div rate.num

\* The limit tested one record late.
CapReachedLate(max_rows, processed_count) ==
    max_rows # 0 /\ processed_count > max_rows

\* `if max_rows and processed_count >= max_rows: break`; None and 0 are
\* both "no limit".
CapReached(max_rows, processed_count) ==
    max_rows # 0 /\ processed_count >= max_rows

\* The loop of parse_to_dataframe from record i (0-based) on, kept the
\* records accepted so far.  (The chunks of 100000 records are concatenated
\* in order and change nothing in the result.)
RECURSIVE ParseLoop(_, _, _, _, _)
ParseLoop(records, i, kept, max_rows, sample_rate) ==
    IF i >= Len(records) THEN kept
    ELSE IF CapReached(max_rows, Len(kept)) THEN kept
    ELSE IF RatLess(sample_rate, RatInt(1)) /\ i % SampleStep(sample_rate) # 0
        THEN ParseLoop(records, i + 1, kept, max_rows, sample_rate)
    ELSE ParseLoop(records, i + 1, Append(kept, records[i + 1]), max_rows,
                   sample_rate)

\* FileParser.parse_to_dataframe: the Dataset (empty when no record was
\* accepted), or the exception of parse_line_by_line.
parse_to_dataframe(f, max_rows, sample_rate) ==
    LET parsed == parse_line_by_line(f, detect_format(f))
    IN  IF IsRaised(parsed) THEN parsed
        ELSE [frame |-> ParseLoop(parsed.records, 0, <<>>, max_rows, sample_rate)]

\* ----------------------------------------------------------------- engine

\* Series.corr of pandas, the Pearson r, kept as its sign and its square (nan
\* for fewer than two records or a constant series).
Correlation(xs, ys) ==
    LET n   == Len(xs)
        Sxx == n * Dot(xs, xs) - SumSeq(xs) * SumSeq(xs)
        Syy == n * Dot(ys, ys) - SumSeq(ys) * SumSeq(ys)
        Sxy == n * Dot(xs, ys) - SumSeq(xs) * SumSeq(ys)
    IN  IF n < 2 \/ Sxx = 0 \/ Syy = 0 THEN [sign |-> 0, squared |-> NaN]
        ELSE [sign    |-> IF Sxy > 0 THEN 1 ELSE IF Sxy < 0 THEN -1 ELSE 0,
              squared |-> Rat(Sxy * Sxy, Sxx * Syy)]

\* DataManager.analyze_mapping_patterns: it has no try block, so the KeyError
\* of a column-less (empty) Dataset and the ValueError of linregress leave it.
analyze_mapping_patterns(d) ==
    LET fit == linregress(Xs(d), Ys(d))
    IN  IF d = <<>> THEN Raised("KeyError")
        ELSE IF IsError(fit) THEN Raised("ValueError")
        ELSE [is_global_algorithm |-> Cardinality(Range(Cs(d))) = 1,
              unique_change_count |-> Cardinality(Range(Cs(d))),
              correlation         |-> Correlation(Xs(d), Ys(d)),
              linear_fit          |-> fit,
              data_quality        |->
                  [total_records          |-> Len(d),
                   unique_original_values |-> Cardinality(Range(Xs(d))),
                   unique_target_values   |-> Cardinality(Range(Ys(d))),
                   missing_values         |-> 0]]

\* AlgorithmDeriver.derive_piecewise_algorithm
derive_piecewise_algorithm(d) ==
    LET r == find_piecewise_mapping(d)
    IN  IF ~Get(r, "is_piecewise")
            THEN [is_piecewise |-> FALSE, segments |-> 1, algorithm |-> "linear"]
        ELSE [is_piecewise |-> TRUE, segments |-> r.segments,
              algorithm |-> "piecewise_linear"]

\* AlgorithmEngine._comprehensive_analysis on Dataset d with the summary
\* get_statistics handed it: the dictionary it stores and returns, or the
\* exception that leaves it (the time stamp is left out).
_comprehensive_analysis(d, basic_stats) ==
    LET patterns == analyze_mapping_patterns(d)
    IN  IF IsRaised(patterns) THEN patterns
        ELSE [analysis_type      |-> "comprehensive",
              basic_statistics   |-> basic_stats,
              mapping_patterns   |-> patterns,
              linear_analysis    |-> analyze_linear_mapping(d),
              piecewise_analysis |-> derive_piecewise_algorithm(d),
              model_fitting      |-> fit_multiple_models(d)]

\* dict.get(key, default)
GetOr(r, key, default) == IF key \in DOMAIN r THEN r[key] ELSE default

\* AlgorithmEngine._generate_summary of a stored analysis.
_generate_summary(analysis) ==
    IF analysis = NoAnalysis THEN [empty |-> TRUE]
    ELSE LET stats    == GetOr(analysis, "basic_statistics", EmptyStats)
             patterns == GetOr(analysis, "mapping_patterns", [empty |-> TRUE])
             quality  == GetOr(patterns, "data_quality", [empty |-> TRUE])
             fit      == GetOr(patterns, "linear_fit", [empty |-> TRUE])
             r2       == GetOr(fit, "r_squared", RatInt(0))
             overview ==
                [total_records          |-> GetOr(stats, "total_records", 0),
                 unique_original_values |-> GetOr(quality, "unique_original_values", 0),
                 unique_target_values   |-> GetOr(quality, "unique_target_values", 0)]
         IN  IF GetOr(patterns, "is_global_algorithm", FALSE)
                 THEN [data_overview |-> overview, algorithm_type |-> "global_constant",
                       confidence |-> RatInt(1)]
             ELSE IF RatLess(LinearThreshold, r2)
                 THEN [data_overview |-> overview, algorithm_type |-> "linear",
                       confidence |-> r2]
             ELSE IF "piecewise_analysis" \in DOMAIN analysis
                 THEN [data_overview |-> overview, algorithm_type |-> "piecewise_linear",
                       confidence |-> Rat(8, 10)]
             ELSE [data_overview |-> overview, algorithm_type |-> "unknown",
                   confidence |-> RatInt(0)]

\* AlgorithmEngine.get_analysis_summary
get_analysis_summary ==
    IF current_analysis = NoAnalysis THEN [error |-> "no analysis yet"]
    ELSE [summary |-> _generate_summary(current_analysis)]

\* The signals one call of analyze_mapping, derive_algorithm or
\* compare_algorithms emits, in order, by how the call ends: without data, on
\* an unsupported analysis type, on an exception caught by the call, or
\* with a result.
SignalsCompleteAlways(outcome) ==
    IF outcome = "no data" THEN <<"analysis_error">>
    ELSE <<"analysis_progress", "analysis_progress", "analysis_completed">>

Signals(outcome) ==
    IF outcome = "no data" THEN <<"analysis_error">>
    ELSE IF outcome \in {"unsupported", "raised"}
        THEN <<"analysis_progress", "analysis_error">>
    ELSE <<"analysis_progress", "analysis_progress", "analysis_completed">>

\* What analyze_mapping returns for the outcome r of its analysis: the error
\* dictionary of its except clause if an exception left the analysis, r
\* otherwise.
analysis_outcome(r) ==
    IF IsRaised(r) THEN [error |-> "analysis failed", cause |-> r.raised] ELSE r

\* AlgorithmEngine.analyze_mapping(analysis_type).  The comprehensive
\* analysis stores its dictionary in current_analysis and returns that same
\* object; an exception anywhere inside is caught here, and the call returns
\* the error dictionary alone.
analyze_mapping(analysis_type) ==
    /\ pc = "idle"
    /\ reader = "out"
    /\ data_lock = "free"
    /\ op' = "analyze_mapping"
    /\ tests_run' = <<>>
    /\ IF current_data.none
          THEN /\ result' = [error |-> "no data loaded"]
               /\ emitted' = Signals("no data")
               /\ handed' = Handed("deep", "error", result')
               /\ UNCHANGED current_analysis
          ELSE IF analysis_type = "comprehensive"
          THEN /\ result' = analysis_outcome(
                                 _comprehensive_analysis(current_data.rows,
                                                         statistics_cache))
               /\ IF IsError(result')
                     THEN /\ emitted' = Signals("raised")
                          /\ handed' = Handed("deep", "error", result')
                          /\ UNCHANGED current_analysis
                     ELSE /\ current_analysis' = result'
                          /\ emitted' = Signals("returned")
                          /\ handed' = Handed("same", "analysis", result')
          ELSE /\ result' =
                    IF analysis_type = "linear"
                        THEN [analysis_type   |-> "linear",
                              linear_analysis |->
                                  analyze_linear_mapping(current_data.rows)]
                    ELSE IF analysis_type = "piecewise"
                        THEN [analysis_type      |-> "piecewise",
                              piecewise_analysis |->
                                  derive_piecewise_algorithm(current_data.rows)]
                    ELSE [error |-> "unsupported analysis type"]
               /\ handed' = Handed("deep", "result", result')
               /\ emitted' = Signals(IF analysis_type \in {"linear", "piecewise"}
                                         THEN "returned" ELSE "unsupported")
               /\ UNCHANGED current_analysis
    /\ UNCHANGED <<current_data, statistics_cache, stat_path, pc, file,
                   data_lock, reader, locals>>

\* AlgorithmEngine.clear_analysis
clear_analysis ==
    /\ pc = "idle"
    /\ current_analysis' = NoAnalysis
    /\ op' = "clear_analysis"
    /\ result' = NoResult
    /\ tests_run' = <<>>
    /\ UNCHANGED <<current_data, statistics_cache, stat_path, pc, file,
                   data_lock, reader, handed, locals, emitted>>

\* DataManager.get_data and get_statistics as one step each, for sessions of
\* a single thread: the lock is taken, the copy made, the lock released.
get_data ==
    /\ pc = "idle"
    /\ reader = "out"
    /\ data_lock = "free"
    /\ handed' = Handed("deep", "data", current_data.rows)
    /\ UNCHANGED <<core, file, data_lock, reader, current_analysis, locals, emitted>>

get_statistics ==
    /\ pc = "idle"
    /\ reader = "out"
    /\ data_lock = "free"
    /\ handed' = Handed("shallow", "statistics", statistics_cache)
    /\ UNCHANGED <<core, file, data_lock, reader, current_analysis, locals, emitted>>

\* The dictionary r with the entry at the end of the key path replaced by v.
RECURSIVE Write(_, _, _)
Write(r, path, v) ==
    IF path = <<>> THEN v
    ELSE [k \in DOMAIN r \cup {Head(path)} |->
             IF k = Head(path)
                 THEN Write(IF k \in DOMAIN r THEN r[k] ELSE [empty |-> TRUE],
                            Tail(path), v)
             ELSE r[k]]

\* What a caller may write into the object it was handed: pairs of a key
\* path and the value written there (an entry of the object itself, and an
\* entry of a per-series dictionary inside it).
Writes(h) ==
    IF "kind" \notin DOMAIN h THEN {}
    ELSE IF h.kind = "statistics"
        THEN {<<(<<"total_records">>), -1>>}
             \cup {<<(<<part, "min">>), -1>> :
                      part \in {"original_range"} \cap DOMAIN h.value}
    ELSE IF h.kind = "analysis"
        THEN {<<(<<"mapping_patterns">>), [empty |-> TRUE]>>}
             \cup {<<(<<"basic_statistics", part, "min">>), -1>> :
                      part \in {"original_range"}
                                  \cap DOMAIN h.value.basic_statistics}
    ELSE {<<(<<"rows">>), <<>>>>}

\* A caller writes into the object it holds.  dict.copy() is shallow: the
\* summary handed by get_statistics is a new dictionary whose per-series
\* dictionaries are those of statistics_cache, and so is the basic_statistics
\* entry of an analysis.  The comprehensive analysis is handed as the very
\* object current_analysis.  DataFrame.copy() and freshly built dictionaries
\* share nothing.  (Datasets are replaced only while no object is held and no
\* analysis is stored, see NextEngine, so an object shares what it shared
\* when it was made.)  The caller lets go of the object afterwards.
caller_mutates(path, v) ==
    /\ pc = "idle"
    /\ handed # NotHanded
    /\ <<path, v>> \in Writes(handed)
    /\ statistics_cache' =
          IF handed.alias = "shallow" /\ Len(path) = 2
              THEN Write(statistics_cache, path, v)
          ELSE IF handed.alias = "same" /\ Len(path) = 3
              THEN Write(statistics_cache, Tail(path), v)
          ELSE statistics_cache
    /\ current_analysis' =
          IF handed.alias = "same" THEN Write(current_analysis, path, v)
          ELSE IF handed.alias = "shallow" /\ Len(path) = 2
                  /\ current_analysis # NoAnalysis
              THEN Write(current_analysis, <<"basic_statistics">> \o path, v)
          ELSE current_analysis
    /\ handed' = NotHanded
    /\ op' = "caller_mutates"
    /\ UNCHANGED <<current_data, stat_path, pc, tests_run, result, file,
                   data_lock, reader, locals, emitted>>

\* A caller lets go of the object it holds.
caller_drops ==
    /\ handed # NotHanded
    /\ handed' = NotHanded
    /\ UNCHANGED <<core, file, data_lock, reader, current_analysis, locals, emitted>>

\* The Datasets of the engine specification: none, one record, identical
\* original values, a constant delta, scattered records.
EngineInputs ==
    {<<>>,
     <<Rec(1, 1)>>,
     <<Rec(4, 4), Rec(4, 8)>>,
     <<Rec(1, 1), Rec(2, 2), Rec(4, 4)>>,
     <<Rec(1, 1), Rec(2, 4), Rec(4, 0)>>}

AnalysisTypes == {"comprehensive", "linear", "piecewise", "other"}

NextEngine ==
    \/ \E d \in EngineInputs :
          /\ handed = NotHanded
          /\ current_analysis = NoAnalysis
          /\ load_dataset(d)
    \/ /\ handed = NotHanded
       /\ current_analysis = NoAnalysis
       /\ clear_data
    \/ \E t \in AnalysisTypes : analyze_mapping(t)
    \/ clear_analysis
    \/ get_data
    \/ get_statistics
    \/ \E w \in Writes(handed) : caller_mutates(w[1], w[2])
    \/ caller_drops

SpecEngine == Init /\ [][NextEngine]_vars

\* ----------------------------------------------- files, parsing, loading

\* The file at the path is written (once: what the parser does depends on
\* the file as it is, not on how it came to be).
write_file(f) ==
    /\ pc = "idle"
    /\ file = <<>>
    /\ f # <<>>
    /\ file' = f
    /\ UNCHANGED <<core, data_lock, reader, handed, current_analysis, locals, emitted>>

call_detect_format ==
    /\ pc = "idle"
    /\ op' = "detect_format"
    /\ result' = [format |-> detect_format(file)]
    /\ tests_run' = <<>>
    /\ UNCHANGED <<current_data, statistics_cache, stat_path, pc, around>>

call_parse_to_dataframe(max_rows, sample_rate) ==
    /\ pc = "idle"
    /\ op' = "parse_to_dataframe"
    /\ result' = [max_rows    |-> max_rows,
                  sample_rate |-> sample_rate,
                  returned    |-> parse_to_dataframe(file, max_rows, sample_rate)]
    /\ tests_run' = <<>>
    /\ UNCHANGED <<current_data, statistics_cache, stat_path, pc, around>>

\* DataManager.load_data(file_path, sample_size, sample_rate) from the file:
\* a file whose information cannot be gathered is reported and nothing is
\* parsed or stored; otherwise the file is parsed (by count if sample_size
\* is given, by rate if not) and the load goes on as in load_data above.
load_data_from_file(sample_size, sample_rate) ==
    IF IsError(get_file_info(file))
        THEN /\ pc = "idle"
             /\ op' = "load_data"
             /\ result' = [success |-> FALSE, message |-> "file info failed"]
             /\ tests_run' = <<>>
             /\ UNCHANGED <<current_data, statistics_cache, stat_path, pc, around>>
        ELSE load_dataset(
                 parse_to_dataframe(file, sample_size,
                     IF sample_size # 0 THEN RatInt(1) ELSE sample_rate).frame)

\* Lines of the grammar files: one of each kind, an annotated line whose
\* written delta is not target - original, a line with original value 0.
LinePool ==
    {Line("header"), Line("note"), Line("marked"),
     SimpleLine(0, 5),
     Annotated("pixel", 1, 0, 0, 3, 5, 2, Rat(200, 3)),
     Annotated("dicom", 1, 0, 0, 3, 5, 2, Rat(200, 3)),
     Annotated("dicom", 2, 0, 1, 16, 20, 5, RatInt(50))}

\* Longest grammar file, longest file of the sampling files, largest
\* record limit.
FileLen == 2

SampleLen == 5

MaxRows == 3

RECURSIVE Files(_, _)
Files(pool, n) ==
    IF n = 0 THEN {<<>>}
    ELSE Files(pool, n - 1)
         \cup {Append(f, l) : f \in Files(pool, n - 1), l \in pool}

\* Files of k simple lines, record j mapping j to 2j.
SampleFile(k) == [j \in 1..k |-> SimpleLine(j, 2 * j)]

FileInputs ==
    Files(LinePool, FileLen) \cup {SampleFile(k) : k \in 1..SampleLen}

\* Sampling rates: 1, 3/5, 1/2, 2/5, 1/3.
SampleRates == {RatInt(1), Rat(3, 5), Rat(1, 2), Rat(2, 5), Rat(1, 3)}

NextParser ==
    \/ \E f \in FileInputs : write_file(f)
    \/ call_detect_format
    \/ \E m \in 0..MaxRows, r \in SampleRates : call_parse_to_dataframe(m, r)
    \/ \E m \in 1..MaxRows : load_data_from_file(m, RatInt(1))
    \/ \E r \in SampleRates : load_data_from_file(0, r)

SpecParser == Init /\ [][NextParser]_vars

\* parse_to_dataframe record by record, with its working buffer and its
\* list of chunks.  ParseChunk is chunk_size (100000 in the program).
ParseChunk == 2

\* Variant of the flush test that lets the buffer grow one record further.
ChunkFullLate(current_chunk) == Len(current_chunk) > ParseChunk

\* `if len(current_chunk) >= chunk_size`
ChunkFull(current_chunk) == Len(current_chunk) >= ParseChunk

\* The call and the start of its loop: the generator raises on the first
\* record when the format is not supported.
parse_start(max_rows, sample_rate) ==
    /\ pc = "idle"
    /\ op' = "parse_to_dataframe"
    /\ tests_run' = <<>>
    /\ LET parsed == parse_line_by_line(file, detect_format(file))
       IN  IF IsRaised(parsed)
               THEN /\ result' = [max_rows |-> max_rows, sample_rate |-> sample_rate,
                                  returned |-> parsed]
                    /\ UNCHANGED <<pc, locals>>
               ELSE /\ pc' = "parsing"
                    /\ result' = NoResult
                    /\ locals' = [records         |-> parsed.records,
                                  i               |-> 0,
                                  chunks          |-> <<>>,
                                  current_chunk   |-> <<>>,
                                  processed_count |-> 0,
                                  max_rows        |-> max_rows,
                                  sample_rate     |-> sample_rate]
    /\ UNCHANGED <<current_data, statistics_cache, stat_path, file, data_lock,
                   reader, handed, current_analysis, emitted>>

\* One round of the loop: the record is skipped by the sampling, or accepted
\* into the buffer, and a full buffer is moved to the chunk list.
parse_record ==
    /\ pc = "parsing"
    /\ locals.i < Len(locals.records)
    /\ ~CapReached(locals.max_rows, locals.processed_count)
    /\ IF RatLess(locals.sample_rate, RatInt(1))
             /\ locals.i % SampleStep(locals.sample_rate) # 0
          THEN locals' = [locals EXCEPT !.i = @ + 1]
          ELSE LET buffer == Append(locals.current_chunk,
                                    locals.records[locals.i + 1])
               IN  locals' =
                     [locals EXCEPT
                        !.i = @ + 1,
                        !.processed_count = @ + 1,
                        !.chunks = IF ChunkFull(buffer) THEN Append(@, buffer)
                                   ELSE @,
                        !.current_chunk = IF ChunkFull(buffer) THEN <<>>
                                          ELSE buffer]
    /\ UNCHANGED <<core, file, data_lock, reader, handed, current_analysis, emitted>>

\* The end of the loop (no record left, or the limit reached): the last
\* buffer becomes a chunk, the chunks are concatenated in order.
parse_finish ==
    /\ pc = "parsing"
    /\ \/ locals.i >= Len(locals.records)
       \/ CapReached(locals.max_rows, locals.processed_count)
    /\ LET chunks == IF locals.current_chunk # <<>>
                         THEN Append(locals.chunks, locals.current_chunk)
                     ELSE locals.chunks
           RECURSIVE concat(_)
           concat(cs) == IF cs = <<>> THEN <<>> ELSE Head(cs) \o concat(Tail(cs))
       IN  result' = [max_rows    |-> locals.max_rows,
                      sample_rate |-> locals.sample_rate,
                      returned    |-> [frame |-> concat(chunks)]]
    /\ pc' = "idle"
    /\ locals' = <<>>
    /\ UNCHANGED <<current_data, statistics_cache, stat_path, op, tests_run,
                   file, data_lock, reader, handed,
                   current_analysis, emitted>>

NextChunks ==
    \/ \E f \in FileInputs : write_file(f)
    \/ \E m \in 0..MaxRows, r \in SampleRates : parse_start(m, r)
    \/ parse_record
    \/ parse_finish

SpecChunks == Init /\ [][NextChunks]_vars

\* ------------------------------------------------------------- comparator

\* AlgorithmComparator._get_data_stats: pandas statistics of the three
\* series; the column access raises on a Dataset without columns.
_get_data_stats(d) ==
    IF d = <<>> THEN Raised("KeyError") ELSE FrameStats(d, Len(d))

\* _compare_algorithm_similarity: the linear fits of both Datasets compared;
\* an exception of either regression gives the error entry.  A nan makes the
\* score nan: it is not above 0.8, and max(0.0, nan) is 0.0.
_compare_algorithm_similarity(d1, d2) ==
    LET f1 == linregress(Xs(d1), Ys(d1))
        f2 == linregress(Xs(d2), Ys(d2))
        sub(p, q)  == Rat(p.num * q.den - q.num * p.den, p.den * q.den)
        add(p, q)  == Rat(p.num * q.den + q.num * p.den, p.den * q.den)
        scale(p, a, b) == Rat(p.num * a, p.den * b)
        least(p, q) == IF RatLess(q, p) THEN q ELSE p
        one  == RatInt(1)
    IN  IF IsError(f1) \/ IsError(f2)
            THEN [error |-> "similarity comparison failed"]
        ELSE LET slope_diff     == RatAbsDiff(f1.slope, f2.slope)
                 intercept_diff == RatAbsDiff(f1.intercept, f2.intercept)
                 r2_diff        == RatAbsDiff(f1.r_squared, f2.r_squared)
                 total == add(add(slope_diff, scale(intercept_diff, 1, 100)),
                              r2_diff)
                 similarity_score == sub(one, scale(total, 1, 3))
             IN  [slope_similarity     |-> sub(one, least(slope_diff, one)),
                  intercept_similarity |->
                      sub(one, least(scale(intercept_diff, 1, 100), one)),
                  r2_similarity        |-> sub(one, least(r2_diff, one)),
                  overall_similarity   |->
                      IF RatLess(RatInt(0), similarity_score)
                          THEN similarity_score ELSE RatInt(0),
                  is_similar           |-> RatLess(Rat(8, 10), similarity_score)]

\* The largest gap between the empirical distribution functions of a and b,
\* times Len(a) * Len(b); signed keeps only the gaps where a's function is
\* above b's.
KsGap(a, b, signed) ==
    LET below(s, v) == Cardinality({i \in 1..Len(s) : s[i] <= v})
        gap(v)      == below(a, v) * Len(b) - below(b, v) * Len(a)
    IN  SetMax({IF signed THEN gap(v) ELSE Abs(gap(v)) :
                   v \in Range(a) \cup Range(b)} \cup {0})

\* The exact p-value of the two-sample Kolmogorov-Smirnov statistic
\* gap / (n1 * n2): the share of the lattice paths from (0, 0) to (m, n) that
\* reach a gap that large (scipy takes m as the larger size; 1.0 for gap 0).
KsPValue(n1, n2, gap) ==
    LET m == Max2(n1, n2)
        n == Min2(n1, n2)
        RECURSIVE inside(_, _, _)
        inside(i, j, h) ==
            IF Abs(i * n - j * m) >= h THEN 0
            ELSE IF i = m /\ j = n THEN 1
            ELSE (IF i < m THEN inside(i + 1, j, h) ELSE 0)
                 + (IF j < n THEN inside(i, j + 1, h) ELSE 0)
        total == inside(0, 0, m * n + 1)
    IN  IF gap = 0 THEN RatInt(1)
        ELSE Rat(total - inside(0, 0, gap), total)

\* Variant of the test that looks only at where the first sample's
\* distribution function lies above the second's.
ks_2samp_greater(a, b) ==
    [statistic |-> Rat(KsGap(a, b, TRUE), Len(a) * Len(b)),
     pvalue    |-> KsPValue(Len(a), Len(b), KsGap(a, b, TRUE))]

\* scipy.stats.ks_2samp, two-sided, exact method (samples of at most 10000).
ks_2samp(a, b) ==
    [statistic |-> Rat(KsGap(a, b, FALSE), Len(a) * Len(b)),
     pvalue    |-> KsPValue(Len(a), Len(b), KsGap(a, b, FALSE))]

\* _compare_distributions
_compare_distributions(d1, d2) ==
    LET verdict(t) == [ks_statistic |-> t.statistic,
                       p_value      |-> t.pvalue,
                       is_similar   |-> RatLess(Rat(5, 100), t.pvalue)]
        orig   == verdict(ks_2samp(Xs(d1), Xs(d2)))
        target == verdict(ks_2samp(Ys(d1), Ys(d2)))
    IN  [original_distribution |-> orig,
         target_distribution   |-> target,
         overall_similarity    |-> orig.is_similar /\ target.is_similar]

\* _compare_performance: the correlation of the deltas for equal record
\* counts, 0 otherwise; |r| > 0.8 is r^2 > 0.64, false for nan.
_compare_performance(d1, d2) ==
    LET corr == IF Len(d1) = Len(d2) THEN Correlation(Cs(d1), Cs(d2))
                ELSE [sign |-> 0, squared |-> RatInt(0)]
    IN  [change_correlation |-> corr,
         change_consistency |-> RatLess(Rat(64, 100), corr.squared)]

\* AlgorithmComparator.compare_algorithms: one try block around the five
\* entries, so the exception of _get_data_stats replaces the whole result.
comparator_compare_algorithms(data1, data2) ==
    IF IsRaised(_get_data_stats(data1)) \/ IsRaised(_get_data_stats(data2))
        THEN [error |-> "comparison failed"]
    ELSE [data1_stats             |-> _get_data_stats(data1),
          data2_stats             |-> _get_data_stats(data2),
          algorithm_similarity    |-> _compare_algorithm_similarity(data1, data2),
          distribution_comparison |-> _compare_distributions(data1, data2),
          performance_comparison  |-> _compare_performance(data1, data2)]

\* AlgorithmEngine.compare_algorithms(other_data)
compare_algorithms(other_data) ==
    /\ pc = "idle"
    /\ op' = "compare_algorithms"
    /\ tests_run' = <<>>
    /\ IF current_data.none
          THEN /\ result' = [error |-> "no data loaded"]
               /\ emitted' = Signals("no data")
          ELSE /\ result' = [comparison |->
                    comparator_compare_algorithms(current_data.rows, other_data)]
               /\ emitted' = Signals("returned")
    /\ UNCHANGED <<current_data, statistics_cache, stat_path, pc, file,
                   data_lock, reader, handed, current_analysis, locals>>

\* Longest Dataset of the comparison specification.
CompareLen == 4

\* The Datasets compared: runs of k records from original value a on, mapped
\* by the identity or doubled; the empty Dataset; identical original values.
CompareInputs ==
    {[i \in 1..k |-> Rec(a + i - 1, f * (a + i - 1))] :
         k \in 1..CompareLen, a \in {1, 5}, f \in {1, 2}}
    \cup {<<>>, <<Rec(4, 4), Rec(4, 8)>>}

NextCompare ==
    \/ \E d \in CompareInputs : load_dataset(d)
    \/ \E d \in CompareInputs : compare_algorithms(d)

SpecCompare == Init /\ [][NextCompare]_vars

\* ---------------------------------------------------------------- session

\* AlgorithmDeriver.derive_algorithm from the outcomes of its tests: the
\* value of the first test, in the order of the calls, that accepts.
first_accepted(tests) ==
    LET first == CHOOSE k \in DOMAIN derive_order :
                     /\ tests[derive_order[k]].accept
                     /\ \A j \in 1..(k - 1) : ~tests[derive_order[j]].accept
    IN  tests[derive_order[first]].value

\* AlgorithmEngine.derive_algorithm
derive_algorithm ==
    /\ pc = "idle"
    /\ op' = "derive_algorithm"
    /\ tests_run' = <<>>
    /\ IF current_data.none
          THEN /\ result' = [error |-> "no data loaded"]
               /\ emitted' = Signals("no data")
          ELSE /\ result' =
                    [algorithm |->
                        first_accepted([test \in Range(derive_order) |->
                                           derive_test(test, current_data.rows)])]
               /\ emitted' = Signals("returned")
    /\ UNCHANGED <<current_data, statistics_cache, stat_path, pc, file,
                   data_lock, reader, handed, current_analysis, locals>>

call_get_analysis_summary ==
    /\ pc = "idle"
    /\ op' = "get_analysis_summary"
    /\ result' = get_analysis_summary
    /\ tests_run' = <<>>
    /\ UNCHANGED <<current_data, statistics_cache, stat_path, pc, around>>

\* Sessions of one thread on the engine and its data manager.
NextSession ==
    \/ \E d \in EngineInputs : load_dataset(d)
    \/ clear_data
    \/ \E t \in AnalysisTypes : analyze_mapping(t)
    \/ derive_algorithm
    \/ \E d \in EngineInputs : compare_algorithms(d)
    \/ clear_analysis
    \/ call_get_analysis_summary

SpecSession == Init /\ [][NextSession]_vars

\* ------------------------------------------ analysis beside a loading thread

\* analyze_mapping('comprehensive') up to the call of _comprehensive_analysis:
\* the test for missing data and the first progress signal. locals holds the
\* position of the analysing thread and the parts computed so far.
comprehensive_begin ==
    /\ pc = "idle"
    /\ locals = <<>>
    /\ ~current_data.none
    /\ locals' = [at |-> "statistics", parts |-> [analysis_type |-> "comprehensive"]]
    /\ emitted' = <<"analysis_progress">>
    /\ UNCHANGED <<core, file, data_lock, reader, handed, current_analysis>>

\* One statement of _comprehensive_analysis: each reads the data manager's
\* fields as they are when it runs, no lock is held between two of them. The
\* last one stores the analysis and ends the call.
comprehensive_step ==
    /\ pc = "idle"
    /\ locals # <<>>
    /\ LET at    == locals.at
           parts == locals.parts
           With(key, v) == [k \in DOMAIN parts \cup {key} |->
                               IF k = key THEN v ELSE parts[k]]
           Go(next, key, v) ==
               /\ locals' = [at |-> next, parts |-> With(key, v)]
               /\ UNCHANGED <<op, result, tests_run, current_analysis, emitted>>
           patterns == IF current_data.none THEN [empty |-> TRUE]
                       ELSE analyze_mapping_patterns(current_data.rows)
       IN  IF at = "statistics"
               THEN Go("patterns", "basic_statistics", statistics_cache)
           ELSE IF at = "patterns"
               THEN IF IsRaised(patterns)
                        THEN /\ locals' = <<>>
                             /\ op' = "analyze_mapping"
                             /\ tests_run' = <<>>
                             /\ result' = [error |-> "analysis failed",
                                           cause |-> patterns.raised]
                             /\ emitted' = Append(emitted, "analysis_error")
                             /\ UNCHANGED current_analysis
                        ELSE Go("linear", "mapping_patterns", patterns)
           ELSE IF at = "linear"
               THEN Go("piecewise", "linear_analysis",
                       IF current_data.none THEN [error |-> "linear analysis failed"]
                       ELSE analyze_linear_mapping(current_data.rows))
           ELSE IF at = "piecewise"
               THEN Go("fitting", "piecewise_analysis",
                       IF current_data.none
                           THEN [is_piecewise |-> FALSE, segments |-> 1,
                                 algorithm |-> "linear"]
                       ELSE derive_piecewise_algorithm(current_data.rows))
           ELSE LET analysis ==
                        With("model_fitting",
                             IF current_data.none
                                 THEN [error |-> "model fitting failed"]
                             ELSE fit_multiple_models(current_data.rows))
                IN  /\ locals' = <<>>
                    /\ op' = "analyze_mapping"
                    /\ tests_run' = <<>>
                    /\ current_analysis' = analysis
                    /\ result' = analysis
                    /\ emitted' = emitted \o <<"analysis_progress", "analysis_completed">>
    /\ UNCHANGED <<current_data, statistics_cache, stat_path, pc, file,
                   data_lock, reader, handed>>

RaceInputs ==
    {<<Rec(1, 1), Rec(2, 2)>>, <<Rec(1, 2), Rec(2, 4)>>, <<Rec(4, 4), Rec(4, 8)>>}

\* One thread analysing, another loading and clearing.
NextRace ==
    \/ comprehensive_begin
    \/ comprehensive_step
    \/ \E d \in RaceInputs : load_dataset(d)
    \/ clear_data

SpecRace == Init /\ [][NextRace]_vars

\* ------------------------------------------------------------ properties

rows == current_data.rows

\* The distinct deltas of the records of the current Dataset.
Deltas == {r.change : r \in Range(rows)}

\* C3: find_constant_mapping on a Dataset with one distinct delta reports
\* is_constant true, that delta as constant_change and confidence 1.0; with
\* two or more distinct deltas it reports is_constant false, their number as
\* unique_changes and [smallest, largest] as change_range.
C3_ConstantMapping ==
    (op = "find_constant_mapping" /\ rows # <<>>) =>
        IF \E c \in Deltas : Deltas = {c}
            THEN /\ result.is_constant
                 /\ Deltas = {result.constant_change}
                 /\ result.confidence = RatInt(1)
            ELSE /\ ~result.is_constant
                 /\ result.unique_changes = Cardinality(Deltas)
                 /\ result.change_range[1] \in Deltas
                 /\ result.change_range[2] \in Deltas
                 /\ \A c \in Deltas : /\ result.change_range[1] <= c
                                      /\ c <= result.change_range[2]

C3_Witness ==
    /\ op = "find_constant_mapping"
    /\ Len(rows) >= 2
    /\ Cardinality(Range(Xs(rows))) >= 2
    /\ result.is_constant

\* The centred sums of the current Dataset times its size.
CSxx == Len(rows) * Dot(Xs(rows), Xs(rows)) - SumSeq(Xs(rows)) * SumSeq(Xs(rows))
CSyy == Len(rows) * Dot(Ys(rows), Ys(rows)) - SumSeq(Ys(rows)) * SumSeq(Ys(rows))
CSxy == Len(rows) * Dot(Xs(rows), Ys(rows)) - SumSeq(Xs(rows)) * SumSeq(Ys(rows))

\* The slopes and intercepts the exact-line part of C4 ranges over.
LineSlopes == {a \in -3..3 : a # 0}
LineIntercepts == -15..15

\* C4: analyze_linear_mapping reports is_linear exactly when R^2 > 0.95
\* (100 Sxy^2 > 95 Sxx Syy on the centred sums); on a Dataset whose target
\* is exactly a x original + b with a # 0 and at least two distinct original
\* values it reports is_linear, slope a, intercept b and R^2 = 1.
C4_LinearMapping ==
    (op = "analyze_linear_mapping" /\ ~IsError(result)) =>
        /\ result.is_linear <=>
              (CSxx > 0 /\ CSyy > 0 /\ 100 * CSxy * CSxy > 95 * CSxx * CSyy)
        /\ \A a \in LineSlopes, b \in LineIntercepts :
              ( /\ \A r \in Range(rows) : r.target_value = a * r.original_value + b
                /\ Cardinality(Range(Xs(rows))) >= 2 ) =>
                    /\ result.is_linear
                    /\ result.slope = RatInt(a)
                    /\ result.intercept = RatInt(b)
                    /\ result.r_squared = RatInt(1)

C4_Witness ==
    /\ op = "analyze_linear_mapping"
    /\ Range(rows) = {Rec(0, 7), Rec(1, 10), Rec(2, 13)}
    /\ result.is_linear
    /\ result.slope = RatInt(3)
    /\ result.intercept = RatInt(7)

\* The current Dataset is a two-slope Dataset: ascending original values
\* 0, 1, 2, ..., target slope 1 up to 0-based record brk and 5 from there on,
\* with at least one window of records on each side.
TwoSlope(brk) ==
    /\ Len(rows) = PMaxLen
    /\ brk + 1 >= WindowSize
    /\ Len(rows) - brk >= WindowSize
    /\ \A i \in 1..Len(rows) :
          /\ rows[i].original_value = i - 1
          /\ rows[i].target_value =
                IF i - 1 <= brk THEN i - 1 ELSE brk + 5 * (i - 1 - brk)

\* C5 as stated: on a two-slope Dataset find_piecewise_mapping reports
\* is_piecewise true, exactly one turning point within half a window of the
\* break, and exactly two Segments, of slopes 1 and 5.
C5_TwoSlopeDetected ==
    \A brk \in 0..PMaxLen :
        (op = "find_piecewise_mapping" /\ TwoSlope(brk)) =>
            /\ Get(result, "is_piecewise")
            /\ Len(result.turning_points) = 1
            /\ Abs(result.turning_points[1] - brk) <= WindowSize \div 2
            /\ Len(result.segments) = 2
            /\ result.segments[1].slope = RatInt(1)
            /\ result.segments[2].slope = RatInt(5)

\* The returned Segments of the current result, when it lists Segments.
HasSegments == op = "find_piecewise_mapping" /\ "turning_points" \in DOMAIN result

\* The size of the sub-range of sorted positions that holds 0-based position
\* i, the sub-ranges being cut after each returned turning point.
SubRangeSize(i) ==
    LET tps == Range(result.turning_points)
        lo  == IF \E t \in tps : t < i
                  THEN SetMax({t \in tps : t < i}) + 1 ELSE 0
        hi  == IF \E t \in tps : t >= i
                  THEN SetMin({t \in tps : t >= i}) ELSE Len(rows) - 1
    IN  hi - lo + 1

Covered(i) ==
    \E k \in 1..Len(result.segments) :
        result.segments[k].lo <= i /\ i <= result.segments[k].hi

\* C6 as stated: the Segments partition the sorted Dataset without gap or
\* overlap: the first starts at the first record, each next one right after
\* the previous one's end, the last ends at the last record, and the
\* data_counts add up to the size of the Dataset.
C6_SegmentsPartition ==
    HasSegments =>
        LET segs == result.segments
        IN  /\ Len(segs) >= 1
            /\ segs[1].lo = 0
            /\ segs[Len(segs)].hi = Len(rows) - 1
            /\ \A k \in 1..(Len(segs) - 1) : segs[k + 1].lo = segs[k].hi + 1
            /\ SumSeq([k \in 1..Len(segs) |-> segs[k].data_count]) = Len(rows)

\* C6, amended: the Segments are in ascending order and never overlap, each
\* counts its own records, and the records no Segment holds are exactly
\* those of the sub-ranges too short to be kept, so the data_counts add up
\* to the size of the Dataset less the records of those sub-ranges.
C6_SegmentsAscendingWithGaps ==
    HasSegments =>
        LET segs == result.segments
            n    == Len(rows)
        IN  /\ \A k \in 1..Len(segs) :
                  /\ 0 <= segs[k].lo /\ segs[k].lo <= segs[k].hi /\ segs[k].hi < n
                  /\ segs[k].data_count = segs[k].hi - segs[k].lo + 1
                  /\ segs[k].start_value <= segs[k].end_value
            /\ \A k \in 1..(Len(segs) - 1) :
                  /\ segs[k].hi < segs[k + 1].lo
                  /\ segs[k].end_value <= segs[k + 1].start_value
            /\ \A i \in 0..(n - 1) : Covered(i) <=> SubRangeSize(i) > MinSegment
            /\ SumSeq([k \in 1..Len(segs) |-> segs[k].data_count]) =
                  n - Cardinality({i \in 0..(n - 1) : SubRangeSize(i) <= MinSegment})

C6_Witness ==
    /\ HasSegments
    /\ Len(result.segments) = 2
    /\ result.segments[1].hi + 1 < result.segments[2].lo
    /\ rows[1].original_value > rows[2].original_value

\* Whether a test of derive_algorithm accepts the current Dataset, from the
\* Dataset itself for the constant and the linear test.
AcceptsRef(test) ==
    CASE test = "constant"  -> \E c \in Deltas : Deltas = {c}
      [] test = "linear"    ->
            CSxx > 0 /\ CSyy > 0 /\ 100 * CSxy * CSxy > 95 * CSxx * CSyy
      [] test = "piecewise" -> Get(find_piecewise_mapping(rows), "is_piecewise")
      [] test = "generic"   -> TRUE

TypeOf(test) ==
    CASE test = "constant"  -> "constant"
      [] test = "linear"    -> "linear"
      [] test = "piecewise" -> "piecewise_linear"
      [] test = "generic"   -> "complex"

\* C1: derive_algorithm runs its tests in the order constant, linear,
\* piecewise, generic and returns the result of the first one that accepts:
\* the tests run so far are a prefix of that order, every test before the
\* last one run rejected, and the call has returned exactly when the last
\* one run accepted, with that test's algorithm type.
C1_FirstAcceptedWins ==
    op = "derive_algorithm" =>
        LET m == Len(tests_run)
        IN  /\ m \in 1..Len(derive_order)
            /\ tests_run = SubSeq(derive_order, 1, m)
            /\ \A k \in 1..(m - 1) : ~AcceptsRef(tests_run[k])
            /\ (pc = "idle") <=> AcceptsRef(tests_run[m])
            /\ pc = "idle" => result.algorithm_type = TypeOf(tests_run[m])
            /\ pc # "idle" => pc = derive_order[m + 1]

C1_Witness ==
    /\ op = "derive_algorithm"
    /\ pc = "idle"
    /\ tests_run = <<"constant">>
    /\ result.algorithm_type = "constant"
    /\ AcceptsRef("linear")

\* C2 as stated: when no structured test accepts, derive_algorithm returns
\* with confidence 0.5 the model the Model Fitter selects as best on the
\* same Dataset.
C2_GenericIsFitterBest ==
    (op = "derive_algorithm" /\ pc = "idle" /\ rows # <<>>
        /\ result.algorithm_type = "complex") =>
        LET best == fit_multiple_models(rows).best_model
        IN  /\ result.confidence = Rat(1, 2)
            /\ IF IsError(best) THEN IsError(result.algorithm)
               ELSE /\ ~IsError(result.algorithm)
                    /\ result.algorithm.model_type = best.model_name
                    /\ result.algorithm.r_squared = best.r_squared

Families == Range(FamilyOrder)

\* C7 as stated: best_model is the family without error that has the
\* highest R^2, the earlier-fitted one on a tie, and it is the 'no usable
\* model' error exactly when every family has an error.
C7_BestModel ==
    (op = "fit_multiple_models" /\ rows # <<>>) =>
        LET usable == {f \in Families : ~IsError(result[f])}
        IN  /\ IsError(result.best_model) <=> usable = {}
            /\ ~IsError(result.best_model) =>
                  LET b == result.best_model.model_name
                  IN  /\ b \in usable
                      /\ result.best_model.r_squared = result[b].r_squared
                      /\ \A f \in usable :
                            ~RatLess(result[b].r_squared, result[f].r_squared)

\* The families whose positivity precondition the current Dataset fails.
Unfit ==
    {f \in {"power"} : \E r \in Range(rows) :
                           r.original_value <= 0 \/ r.target_value <= 0}
    \cup {f \in {"logarithmic"} : \E r \in Range(rows) : r.original_value <= 0}
    \cup {f \in {"exponential"} : \E r \in Range(rows) : r.target_value <= 0}

\* C8: a family whose positivity precondition fails (power: an original or
\* target value <= 0; logarithmic: an original value <= 0; exponential: a
\* target value <= 0) gets the explicit precondition error and no fit; the
\* call does not abort, every other family is fitted, and the best model is
\* one of the fitted ones.
C8_PreconditionErrors ==
    (op = "fit_multiple_models" /\ rows # <<>>) =>
        /\ ~IsError(result)
        /\ \A f \in Unfit : result[f] = NeedsPositive(f)
        /\ \A f \in Families \ Unfit :
              IF IsError(result[f]) THEN result[f] = FitFailed(f)
              ELSE result[f].model_type = f
        /\ ~IsError(result.best_model) =>
              /\ result.best_model.model_name \in Families \ Unfit
              /\ result.best_model.result =
                    result[result.best_model.model_name]

C8_Witness ==
    /\ op = "fit_multiple_models"
    /\ Unfit = {"power", "logarithmic"}
    /\ result.power = NeedsPositive("power")
    /\ ~IsError(result.exponential)
    /\ ~IsError(result.best_model)

StatParts == {"original_range", "target_range", "change_stats"}

\* C9 as stated: the statistics accumulated chunk by chunk and the
\* statistics computed directly over the same Dataset agree on min, max,
\* mean and std of the original values, the target values and the deltas,
\* for a Dataset (of two records or more) below the chunk threshold and for
\* one above it.
C9_ChunkedAgreesWithDirect ==
    (op = "load_data" /\ result.success /\ Len(rows) >= 2) =>
        LET direct  == FrameStats(rows, Len(rows))
            chunked == ChunkedStats(rows, StatChunk)
        IN  \A part \in StatParts :
                \A f \in {"min", "max", "mean", "std"} :
                    direct[part][f] = chunked[part][f]

\* C10 as stated: every statistics summary of a non-empty Dataset, whichever
\* branch computed it, has a defined std >= 0 for the original values, the
\* target values and the deltas, a single record and zero variance included.
C10_StdDefined ==
    (op = "load_data" /\ result.success) =>
        \A part \in StatParts :
            LET v == statistics_cache[part].std.sqrt_of
            IN  ~IsNaN(v) /\ ~RatLess(v, RatInt(0))

\* C11 as stated: after any sequence of load_data calls (successful or
\* failed) and clear_data calls the statistics describe the Dataset held:
\* total_records is the record count of the Dataset get_data returns, and
\* the summary is empty whenever no Dataset is held.
C11_StatisticsDescribeData ==
    /\ current_data.none => statistics_cache = EmptyStats
    /\ ~current_data.none =>
          IF statistics_cache = EmptyStats THEN Len(rows) = 0
          ELSE statistics_cache.total_records = Len(rows)

\* C12 as stated: the writes of load_data and clear_data to the current
\* Dataset and the statistics cache happen inside the same critical section
\* as the reads, so no thread is inside get_data or get_statistics while
\* another is between the writes of a load or a clear.
C12_NoReaderDuringReplace ==
    pc \in {"load_statistics", "clear_statistics"} => reader = "out"

\* C13 as stated: what get_data, get_statistics and the comprehensive
\* analyze_mapping hand to a caller is a defensive copy, so a caller writing
\* into it (nested per-series dictionaries included) changes neither the
\* stored Dataset, nor the statistics cache, nor the engine's current
\* analysis, nor what get_analysis_summary returns afterwards.
C13_CallerWritesStayLocal ==
    [][op' = "caller_mutates" /\ handed # NotHanded /\ handed' = NotHanded
          => /\ current_data' = current_data
             /\ statistics_cache' = statistics_cache
             /\ current_analysis' = current_analysis
             /\ _generate_summary(current_analysis')
                    = _generate_summary(current_analysis)]_vars

\* The records the sampling is applied to: those of the file in the result's
\* grammar, when parse_to_dataframe has returned a Dataset.
Parsed ==
    /\ op = "parse_to_dataframe"
    /\ "returned" \in DOMAIN result
    /\ "frame" \in DOMAIN result.returned

AllRecords == parse_line_by_line(file, detect_format(file)).records

\* round(1/r) for a rate num/den, halves to the even neighbour.
RoundedStep(rate) ==
    LET q   == rate.den \div rate.num
        rem == rate.den % rate.num
    IN  IF 2 * rem > rate.num \/ (2 * rem = rate.num /\ q % 2 = 1)
            THEN q + 1
        ELSE q

\* The records at the 0-based positions that are multiples of step.
EveryNth(records, step) ==
    LET at == {i \in 0..(Len(records) - 1) : i % step = 0}
    IN  [k \in 1..Cardinality(at) |-> records[(k - 1) * step + 1]]

\* C14 as stated: with no record limit, parse_to_dataframe at rate r < 1
\* retains exactly the records whose 0-based position is a multiple of
\* round(1/r) (every second record at r = 0.6), and every record at r = 1.
C14_SamplingByRoundedStep ==
    Parsed /\ result.max_rows = 0
        => result.returned.frame =
               IF result.sample_rate = RatInt(1) THEN AllRecords
               ELSE EveryNth(AllRecords, RoundedStep(result.sample_rate))

\* C15: with a record limit m > 0, parse_to_dataframe returns exactly
\* min(m, k) records, k being the number of records the sampling retains,
\* and they are the first retained ones in file order; nothing is accepted
\* once m records are held.
C15_RecordLimit ==
    Parsed /\ result.max_rows > 0
        => LET retained == IF RatLess(result.sample_rate, RatInt(1))
                               THEN EveryNth(AllRecords,
                                             SampleStep(result.sample_rate))
                           ELSE AllRecords
               n        == Min2(result.max_rows, Len(retained))
           IN  /\ Len(result.returned.frame) = n
               /\ result.returned.frame = SubSeq(retained, 1, n)

\* A limit below the number of retained records has cut the result short,
\* under sampling.
C15_Witness ==
    /\ Parsed
    /\ result.max_rows > 0
    /\ RatLess(result.sample_rate, RatInt(1))
    /\ Len(result.returned.frame) = result.max_rows
    /\ Len(EveryNth(AllRecords, SampleStep(result.sample_rate))) > result.max_rows

\* C16 as stated: every record of a parsed Dataset has delta = target -
\* original, whichever grammar produced it (derived by the simple grammar,
\* read from the text by the annotated grammars).
C16_DeltaIsTargetMinusOriginal ==
    Parsed =>
        \A i \in 1..Len(result.returned.frame) :
            result.returned.frame[i].change =
                result.returned.frame[i].target_value
                    - result.returned.frame[i].original_value

\* The format the statement of C17 assigns to a file.
FullyAnnotated(line) == {"position(", "original", "arrow"} \subseteq Markers(line)

FreeForm(line) == {"original", "arrow"} \subseteq Markers(line)

StatedFormat(f) ==
    LET head == Range(first_lines(f))
    IN  IF \E l \in head : "dicom_header" \in Markers(l) THEN "dicom_format"
        ELSE IF \E l \in head : FullyAnnotated(l) THEN "pixel_mapping"
        ELSE IF \E l \in head : FreeForm(l) THEN "simple_mapping"
        ELSE "unknown"

\* C17 as stated: detect_format decides on the first lines only: the DICOM
\* header gives 'dicom_format'; without it a fully annotated line gives
\* 'pixel_mapping'; only free-form lines give 'simple_mapping'; no marker at
\* all gives 'unknown'.
C17_DetectedFormat ==
    op = "detect_format" => result.format = StatedFormat(file)

\* No line of the file is a record in any grammar.
NoRecordLine == \A i \in 1..Len(file) : file[i].kind \notin {"simple", "pixel", "dicom"}

\* C18 as stated: for a readable file without any record line, whether its
\* format is recognised or not, parse_to_dataframe returns an empty Dataset
\* (it does not raise) and load_data fails with 'no valid data found'.
C18_NoDataIsRecoverable ==
    NoRecordLine =>
        /\ op = "parse_to_dataframe" =>
              /\ "frame" \in DOMAIN result.returned
              /\ result.returned.frame = <<>>
        /\ op = "load_data" =>
              result = [success |-> FALSE, message |-> "no valid data found"]

\* An exception is raised inside the analysis of the current Dataset: by
\* the column access on an empty Dataset, by the regression over identical
\* original values, by the regression of a sliding window.
WindowRegressionFails ==
    /\ Len(rows) >= 2 * WindowSize
    /\ \E i \in 0..(Len(rows) - WindowSize) : IsError(WindowFit(sort_values(rows), i))

\* C19 as stated: whenever an exception is raised inside find_constant_mapping,
\* analyze_linear_mapping or find_piecewise_mapping, the function returns a
\* result that contains the error key.
C19_ExceptionGivesErrorKey ==
    /\ op = "find_constant_mapping" /\ rows = <<>> => IsError(result)
    /\ op = "analyze_linear_mapping" /\ IsError(linregress(Xs(rows), Ys(rows)))
          => IsError(result)
    /\ op = "find_piecewise_mapping" /\ (rows = <<>> \/ WindowRegressionFails)
          => IsError(result)

\* C20 as stated, for the comprehensive analysis: when one step raises (here
\* the mapping-pattern step, on a Dataset without columns or with identical
\* original values) the result holds an error entry for that step only, and
\* the outputs of the sibling steps are still returned.
C20_StepFailureIsIsolated ==
    /\ op = "analyze_mapping"
    /\ ~current_data.none
    /\ IsRaised(analyze_mapping_patterns(rows))
    /\ "analysis_type" \notin DOMAIN result
    /\ GetOr(result, "error", "") # "unsupported analysis type"
    => /\ {"basic_statistics", "mapping_patterns", "linear_analysis",
           "piecewise_analysis", "model_fitting"} \subseteq DOMAIN result
       /\ IsError(result.mapping_patterns)

\* C23 as stated: a Dataset with strictly fewer records than the chunk
\* threshold has its statistics computed directly over the full series, and
\* one with exactly the threshold number of records or more by the
\* chunk-accumulated pass.
C23_BranchBySize ==
    op = "load_data" /\ result.success /\ stat_path \in {"direct", "chunked"}
        => (stat_path = "direct" <=> Len(rows) < StatChunk)

\* C26 as stated: in the chunked pass the accumulated sum and sum of squares
\* of each series are the exact integer sum and sum of squares of the values
\* of the Dataset, whatever width the columns were narrowed to.
C26_ExactSumsOfSquares ==
    op = "load_data" /\ result.success /\ stat_path = "chunked"
        => LET t == ChunkLoop(rows, 0, StatChunk, ZeroTotals)
           IN  /\ t.original_sum = SumSeq(Xs(rows))
               /\ t.target_sum = SumSeq(Ys(rows))
               /\ t.change_sum = SumSeq(Cs(rows))
               /\ t.original_sum_sq = Dot(Xs(rows), Xs(rows))
               /\ t.target_sum_sq = Dot(Ys(rows), Ys(rows))
               /\ t.change_sum_sq = Dot(Cs(rows), Cs(rows))

\* The window centres where the slope of the scan over the sorted current
\* Dataset changes by more than the threshold, edge guard applied.
Detected ==
    LET sorted == sort_values(rows)
        n      == Len(rows)
    IN  {c \in (EdgeGuard + 1)..(n - EdgeGuard - 1) :
            \E i \in 1..(n - WindowSize) :
                /\ c = i + WindowSize \div 2
                /\ RatLess(SlopeThreshold,
                           RatAbsDiff(WindowFit(sorted, i).slope,
                                      WindowFit(sorted, i - 1).slope))}

\* C24: the turning points find_piecewise_mapping uses are strictly
\* increasing, each lies strictly inside the edge guard, there are at most
\* max_segments - 1 of them, and they are the earliest of those detected;
\* a Dataset shorter than two windows has none and is reported as not
\* piecewise.
C24_TurningPoints ==
    op = "find_piecewise_mapping" =>
        /\ Len(rows) < 2 * WindowSize =>
              /\ ~HasSegments
              /\ ~IsError(result)
              /\ ~result.is_piecewise
        /\ HasSegments =>
              LET tps == result.turning_points
                  n   == Len(rows)
              IN  /\ \A k \in 1..(Len(tps) - 1) : tps[k] < tps[k + 1]
                  /\ \A k \in 1..Len(tps) :
                        EdgeGuard < tps[k] /\ tps[k] < n - EdgeGuard
                  /\ Len(tps) <= max_segments - 1
                  /\ Range(tps) \subseteq Detected
                  /\ \A c \in Detected \ Range(tps) :
                        /\ Len(tps) = max_segments - 1
                        /\ \A k \in 1..Len(tps) : tps[k] < c

\* More turning points were detected than are kept.
C24_Witness ==
    /\ HasSegments
    /\ Cardinality(Detected) > max_segments - 1
    /\ Len(result.turning_points) = max_segments - 1

\* C25: every Segment returned holds more than MinSegment records (shorter
\* sub-ranges are dropped), at most max_segments Segments are returned,
\* total_segments is their number, and is_piecewise holds exactly when more
\* than one Segment is returned.
C25_SegmentsLongEnough ==
    op = "find_piecewise_mapping" /\ ~IsError(result) =>
        IF HasSegments
            THEN /\ \A k \in 1..Len(result.segments) :
                       /\ result.segments[k].data_count > MinSegment
                       /\ result.segments[k].data_count =
                              result.segments[k].hi - result.segments[k].lo + 1
                 /\ \A i \in 0..(Len(rows) - 1) :
                       SubRangeSize(i) <= MinSegment => ~Covered(i)
                 /\ Len(result.segments) <= max_segments
                 /\ result.total_segments = Len(result.segments)
                 /\ result.is_piecewise <=> Len(result.segments) > 1
        ELSE ~result.is_piecewise

\* A sub-range of exactly MinSegment records was dropped between Segments
\* that were kept.
C25_Witness ==
    /\ HasSegments
    /\ result.is_piecewise
    /\ \E i \in 0..(Len(rows) - 1) : SubRangeSize(i) = MinSegment /\ ~Covered(i)

\* The records held by the chunk list, then by the buffer, in order.
Held ==
    LET RECURSIVE concat(_)
        concat(cs) == IF cs = <<>> THEN <<>> ELSE Head(cs) \o concat(Tail(cs))
    IN  concat(locals.chunks) \o locals.current_chunk

\* C22: between two records of parse_to_dataframe the working buffer holds
\* fewer than chunk_size records (a buffer that reaches chunk_size is moved
\* to the chunk list at once), every chunk of the list holds chunk_size
\* records, and chunks and buffer together hold the accepted records once
\* each, in file order; on completion the Dataset is that concatenation: the
\* accepted records, line numbers strictly increasing.
C22_ChunkedBuffer ==
    /\ pc = "parsing" =>
          /\ Len(locals.current_chunk) < ParseChunk
          /\ \A k \in 1..Len(locals.chunks) : Len(locals.chunks[k]) = ParseChunk
          /\ Len(Held) = locals.processed_count
          /\ Held = ParseLoop(SubSeq(locals.records, 1, locals.i), 0, <<>>,
                              locals.max_rows, locals.sample_rate)
    /\ Parsed =>
          /\ result.returned =
                 parse_to_dataframe(file, result.max_rows, result.sample_rate)
          /\ \A k \in 1..(Len(result.returned.frame) - 1) :
                 result.returned.frame[k].line_number
                     < result.returned.frame[k + 1].line_number

\* A parse that filled two chunks and a partial one.
C22_Witness ==
    /\ Parsed
    /\ Len(result.returned.frame) > 2 * ParseChunk
    /\ Len(result.returned.frame) % ParseChunk # 0

\* The boolean verdicts of a comparison (an error entry counts as such).
Verdicts(c) ==
    IF IsError(c) THEN <<"error">>
    ELSE <<IF IsError(c.algorithm_similarity) THEN "error"
           ELSE IF c.algorithm_similarity.is_similar THEN "similar" ELSE "different",
           c.distribution_comparison.original_distribution.is_similar,
           c.distribution_comparison.target_distribution.is_similar,
           c.distribution_comparison.overall_similarity,
           c.performance_comparison.change_consistency>>

\* C21: comparing A with B and B with A gives the same boolean verdicts
\* (linear-fit is_similar, is_similar of both distributions and their
\* overall_similarity, change_consistency), and change_consistency is false
\* when A and B differ in their record counts.
C21_ComparisonSymmetric ==
    op = "compare_algorithms" /\ ~current_data.none =>
        \A B \in CompareInputs :
            result.comparison = comparator_compare_algorithms(rows, B) =>
                /\ Verdicts(result.comparison)
                       = Verdicts(comparator_compare_algorithms(B, rows))
                /\ ~IsError(result.comparison) /\ Len(rows) # Len(B) =>
                       ~result.comparison.performance_comparison.change_consistency

\* A comparison of two Datasets with the same linear map and consistent
\* deltas whose distributions differ.
C21_Witness ==
    /\ op = "compare_algorithms"
    /\ ~current_data.none
    /\ ~IsError(result.comparison)
    /\ Verdicts(result.comparison) = <<"similar", FALSE, FALSE, FALSE, TRUE>>

\* C28 as stated: a non-empty current analysis was computed from the
\* Dataset the data manager holds now: loading another Dataset or clearing
\* the data leaves no analysis of a previous Dataset in place.
C28_AnalysisOfCurrentData ==
    current_analysis # NoAnalysis =>
        /\ ~current_data.none
        /\ ~IsRaised(analyze_mapping_patterns(rows))
        /\ current_analysis.mapping_patterns = analyze_mapping_patterns(rows)
        /\ current_analysis.linear_analysis = analyze_linear_mapping(rows)
        /\ current_analysis.basic_statistics.total_records = Len(rows)

\* The classification the statement of C29 gives a stored analysis.
StatedSummary(analysis) ==
    LET patterns == analysis.mapping_patterns
        r2       == patterns.linear_fit.r_squared
    IN  IF patterns.unique_change_count = 1
            THEN [algorithm_type |-> "global_constant", confidence |-> RatInt(1)]
        ELSE IF RatLess(LinearThreshold, r2)
            THEN [algorithm_type |-> "linear", confidence |-> r2]
        ELSE IF Get(analysis.piecewise_analysis, "is_piecewise")
            THEN [algorithm_type |-> "piecewise_linear", confidence |-> Rat(8, 10)]
        ELSE [algorithm_type |-> "unknown", confidence |-> RatInt(0)]

\* C29 as stated: the summary is 'global_constant' for a single distinct
\* delta, else 'linear' for R^2 > 0.95, else 'piecewise_linear' only when the
\* stored piecewise analysis has is_piecewise true, and 'unknown' with
\* confidence 0 otherwise.
C29_SummaryClassification ==
    op = "get_analysis_summary" /\ "summary" \in DOMAIN result =>
        /\ result.summary.algorithm_type
               = StatedSummary(current_analysis).algorithm_type
        /\ result.summary.confidence
               = StatedSummary(current_analysis).confidence

\* C30: every call of analyze_mapping, derive_algorithm or compare_algorithms
\* emits exactly one terminal signal, analysis_completed or analysis_error,
\* after all its progress signals; it is analysis_error exactly when the
\* returned dictionary has a top-level error key; without data no progress
\* signal is emitted.
C30_OneTerminalSignal ==
    op \in {"analyze_mapping", "derive_algorithm", "compare_algorithms"} =>
        /\ Len(emitted) >= 1
        /\ emitted[Len(emitted)] \in {"analysis_completed", "analysis_error"}
        /\ \A k \in 1..(Len(emitted) - 1) : emitted[k] = "analysis_progress"
        /\ emitted[Len(emitted)] = "analysis_error" <=> IsError(result)
        /\ current_data.none => emitted = <<"analysis_error">>

\* An analysis whose step raised: progress, then the error signal.
C30_Witness ==
    /\ op = "analyze_mapping"
    /\ IsError(result)
    /\ result.error = "analysis failed"
    /\ emitted = <<"analysis_progress", "analysis_error">>

\* C27 as stated: the sub-results of one comprehensive analysis are computed
\* from one and the same Dataset, also when load_data or clear_data runs in
\* another thread during the analysis.
C27_OneDatasetPerAnalysis ==
    current_analysis # NoAnalysis =>
        \E d \in RaceInputs :
            current_analysis =
                _comprehensive_analysis(d, _calculate_basic_statistics(d, FALSE, {}))

====
